---- MODULE Spec2Model ----
(***************************************************************************)
(* Model of the futures-portfolio-monitor market data pipeline             *)
(* (src/multi_source_market_data.py, class MultiSourceMarketData).         *)
(*                                                                         *)
(* Conventions                                                             *)
(*  - A Python str is a sequence of one-character strings, so that         *)
(*    lower(), isupper(), count() and the `in` substring test are computed *)
(*    character by character.                                              *)
(*  - A Python dict is a function from its keys; {} is the function with   *)
(*    the empty domain.  None is the record None, or the string "None"     *)
(*    where the value is otherwise a string.                               *)
(*  - A score (manipulation, reliability, confidence) is the exact         *)
(*    fraction [num, den] the float stands for; comparisons are made by    *)
(*    cross-multiplication.  The floats involved (k/12, 0.3, 0.6, ...)     *)
(*    order exactly as the fractions do.                                   *)
(*  - A percent change is an integer number of hundredths of a percent.    *)
(*  - datetime.now() timestamps are left out of every record.              *)
(***************************************************************************)
EXTENDS Integers, Sequences, FiniteSets, TLC

VARIABLES
    session,        \* self.session: "None" | "open" | "closed"
    topstep_token,  \* self.topstep_token: "None" or the token string
    world,          \* what the outside world answers (quotes, feeds, gateway)
    analysis,       \* result of the last get_comprehensive_market_analysis
    fn_args,        \* arguments of a direct call of one method
    fn_ret,         \* its return value ([called |-> FALSE] before the call)
    cycle,          \* where a running get_comprehensive_market_analysis stands
    session_state,  \* st.session_state of the dashboard (src/app.py)
    session_token   \* TopStepAPI.session_token (src/topstep_api_integration.py)

vars ==
    <<session, topstep_token, world, analysis, fn_args, fn_ret, cycle, session_state,
      session_token>>

(***************************************************************************)
(* Python values                                                           *)
(***************************************************************************)
None == [py |-> "None"]

\* d.get(k, default)
GetDefault(d, k, default) == IF k \in DOMAIN d THEN d[k] ELSE default

\* `not market_data.get('data')`: the key is missing or its dict is empty
NoData(market_data) ==
    \/ "data" \notin DOMAIN market_data
    \/ DOMAIN market_data["data"] = {}

Frac(n, d) == [num |-> n, den |-> d]

\* a > b for fractions with positive denominators
FracGT(a, b) == a.num * b.den > b.num * a.den

Abs(x) == IF x < 0 THEN -x ELSE x

RECURSIVE SumOver(_, _)
SumOver(f, S) ==
    IF S = {} THEN 0
    ELSE LET k == CHOOSE k \in S : TRUE IN f[k] + SumOver(f, S \ {k})

(***************************************************************************)
(* str methods                                                             *)
(***************************************************************************)
UpperLetters ==
    <<"A","B","C","D","E","F","G","H","I","J","K","L","M","N","O","P","Q","R","S","T","U","V",
      "W","X","Y","Z">>

LowerLetters ==
    <<"a","b","c","d","e","f","g","h","i","j","k","l","m","n","o","p","q","r","s","t","u","v",
      "w","x","y","z">>

IsUpperChar(c) == \E i \in DOMAIN UpperLetters : UpperLetters[i] = c

IsLowerChar(c) == \E i \in DOMAIN LowerLetters : LowerLetters[i] = c

LowerChar(c) ==
    IF IsUpperChar(c)
    THEN LowerLetters[CHOOSE i \in DOMAIN UpperLetters : UpperLetters[i] = c]
    ELSE c

\* str.lower()
StrLower(text) == [i \in DOMAIN text |-> LowerChar(text[i])]

\* str.isupper(): at least one cased character and no lower-case one
StrIsUpper(text) ==
    /\ \E i \in DOMAIN text : IsUpperChar(text[i])
    /\ \A i \in DOMAIN text : ~IsLowerChar(text[i])

\* str.count(c) for a one-character c
StrCount(text, c) == Cardinality({i \in DOMAIN text : text[i] = c})

\* `needle in text`
StrContains(text, needle) ==
    \E i \in 1..(Len(text) - Len(needle) + 1) :
        \A j \in 1..Len(needle) : text[i + j - 1] = needle[j]

Concat3(a, b, c) == a \o b \o c

(***************************************************************************)
(* MultiSourceMarketData.__init__: the fixed tables                        *)
(***************************************************************************)
\* "ES=F", "NQ=F", "CL=F", "GC=F"
instruments == <<
    <<"E","S","=","F">>, <<"N","Q","=","F">>, <<"C","L","=","F">>, <<"G","C","=","F">> >>

manipulation_keywords == <<
    <<"u","n","p","r","e","c","e","d","e","n","t","e","d">>,
    <<"n","e","v","e","r"," ","s","e","e","n"," ","b","e","f","o","r","e">>,
    <<"h","i","s","t","o","r","i","c">>,
    <<"s","h","o","c","k","i","n","g">>,
    <<"e","m","e","r","g","e","n","c","y">>,
    <<"c","r","i","s","i","s">>,
    <<"c","r","a","s","h">>,
    <<"b","u","b","b","l","e">>,
    <<"m","o","o","n">>,
    <<"r","o","c","k","e","t">> >>

trusted_sources == <<
    <<"f","e","d","e","r","a","l","r","e","s","e","r","v","e",".","g","o","v">>,
    <<"c","m","e","g","r","o","u","p",".","c","o","m">>,
    <<"s","e","c",".","g","o","v">>,
    <<"t","r","e","a","s","u","r","y",".","g","o","v">>,
    <<"r","e","u","t","e","r","s",".","c","o","m">>,
    <<"b","l","o","o","m","b","e","r","g",".","c","o","m">>,
    <<"w","s","j",".","c","o","m">> >>

news_sources == <<
    <<"h","t","t","p","s",":","/","/","f","e","e","d","s",".","f","i","n","a","n","c","e",".",
      "y","a","h","o","o",".","c","o","m","/","r","s","s","/","2",".","0","/","h","e","a","d",
      "l","i","n","e">>,
    <<"h","t","t","p","s",":","/","/","w","w","w",".","f","e","d","e","r","a","l","r","e","s",
      "e","r","v","e",".","g","o","v","/","f","e","e","d","s","/","p","r","e","s","s","_","a",
      "l","l",".","x","m","l">>,
    <<"h","t","t","p","s",":","/","/","w","w","w",".","c","m","e","g","r","o","u","p",".","c",
      "o","m","/","r","s","s","/","a","l","l","-","p","r","e","s","s","-","r","e","l","e","a",
      "s","e","s",".","x","m","l">> >>

(***************************************************************************)
(* Manipulation scorer                                                     *)
(***************************************************************************)
\* detect_manipulation with the keywords searched in `text` itself instead of
\* text_lower (a case-sensitive match)
detect_manipulation_case_sensitive(text) ==
    LET keyword_hits ==
            Cardinality({k \in DOMAIN manipulation_keywords :
                            StrContains(text, manipulation_keywords[k])})
        total_checks == Len(manipulation_keywords) + 1 + 1
        manipulation_indicators ==
            keyword_hits
            + (IF StrIsUpper(text) THEN 1 ELSE 0)
            + (IF StrCount(text, "!") > 2 \/ StrCount(text, "?") > 2 THEN 1 ELSE 0)
    IN  IF total_checks > 0 THEN Frac(manipulation_indicators, total_checks)
        ELSE Frac(0, 1)

\* detect_manipulation without the two `total_checks += 1` of the structural
\* checks: the denominator counts the keywords only
detect_manipulation_keyword_total(text) ==
    LET text_lower == StrLower(text)
        keyword_hits ==
            Cardinality({k \in DOMAIN manipulation_keywords :
                            StrContains(text_lower, manipulation_keywords[k])})
        total_checks == Len(manipulation_keywords)
        manipulation_indicators ==
            keyword_hits
            + (IF StrIsUpper(text) THEN 1 ELSE 0)
            + (IF StrCount(text, "!") > 2 \/ StrCount(text, "?") > 2 THEN 1 ELSE 0)
    IN  IF total_checks > 0 THEN Frac(manipulation_indicators, total_checks)
        ELSE Frac(0, 1)

detect_manipulation(text) ==
    LET text_lower == StrLower(text)
        \* for keyword in self.manipulation_keywords: total_checks += 1; hit?
        keyword_hits ==
            Cardinality({k \in DOMAIN manipulation_keywords :
                            StrContains(text_lower, manipulation_keywords[k])})
        \* one more check for capitalisation, one more for punctuation
        total_checks == Len(manipulation_keywords) + 1 + 1
        manipulation_indicators ==
            keyword_hits
            + (IF StrIsUpper(text) THEN 1 ELSE 0)
            + (IF StrCount(text, "!") > 2 \/ StrCount(text, "?") > 2 THEN 1 ELSE 0)
    IN  IF total_checks > 0 THEN Frac(manipulation_indicators, total_checks)
        ELSE Frac(0, 1)

\* the loop returns after looking at the first trusted domain only
calculate_source_reliability_first_only(source_url) ==
    IF StrContains(source_url, trusted_sources[1])
    THEN Frac(9, 10)
    ELSE Frac(6, 10)

calculate_source_reliability(source_url) ==
    IF \E d \in DOMAIN trusted_sources : StrContains(source_url, trusted_sources[d])
    THEN Frac(9, 10)
    ELSE Frac(6, 10)

(***************************************************************************)
(* Market summarizer                                                       *)
(***************************************************************************)
\* raised(e): the call did not return, exception e propagates to the caller
Raised(e) == [raised |-> e]

IsRaised(v) == DOMAIN v = {"raised"}

\* the per-instrument test with the comparisons made inclusive
InstrumentSentiment_inclusive(change_pct) ==
    IF change_pct >= 50 THEN "BULLISH"
    ELSE IF change_pct =< -50 THEN "BEARISH"
    ELSE "NEUTRAL"

\* the per-instrument sentiment of lines 353-359; 50 and -50 are 0.5 and -0.5
InstrumentSentiment(change_pct) ==
    IF change_pct > 50 THEN "BULLISH"
    ELSE IF change_pct < -50 THEN "BEARISH"
    ELSE "NEUTRAL"

\* the overall test with the bearish comparison made inclusive (ratio <= 0.4)
OverallSentiment_inclusive(positive_moves, total_instruments) ==
    IF total_instruments > 0
    THEN LET bullish_ratio == Frac(positive_moves, total_instruments)
         IN  IF FracGT(bullish_ratio, Frac(6, 10)) THEN "BULLISH"
             ELSE IF ~FracGT(bullish_ratio, Frac(4, 10)) THEN "BEARISH"
             ELSE "NEUTRAL"
    ELSE "NEUTRAL"

\* lines 369-375: summary['overall_sentiment'] from the two counters
OverallSentiment(positive_moves, total_instruments) ==
    IF total_instruments > 0
    THEN LET bullish_ratio == Frac(positive_moves, total_instruments)
         IN  IF FracGT(bullish_ratio, Frac(6, 10)) THEN "BULLISH"
             ELSE IF FracGT(Frac(4, 10), bullish_ratio) THEN "BEARISH"
             ELSE "NEUTRAL"
    ELSE "NEUTRAL"

\* the summary with market_strength set to the largest strength of the batch
SummaryOf_with_market_strength(data) ==
    LET change_pct(symbol) == GetDefault(data[symbol], "change_percent", 0)
        positive_moves ==
            Cardinality({symbol \in DOMAIN data :
                            InstrumentSentiment(change_pct(symbol)) = "BULLISH"})
        total_instruments == Cardinality(DOMAIN data)
        strongest ==
            CHOOSE m \in {Abs(change_pct(s)) : s \in DOMAIN data} \cup {0} :
                \A s \in DOMAIN data : Abs(change_pct(s)) =< m
    IN  [overall_sentiment |-> OverallSentiment(positive_moves, total_instruments),
         instruments |->
            [symbol \in DOMAIN data |->
                [sentiment      |-> InstrumentSentiment(change_pct(symbol)),
                 change_percent |-> change_pct(symbol),
                 strength       |-> Abs(change_pct(symbol))]],
         market_strength |-> strongest]

\* the summary with the overall sentiment BEARISH only when more than 60 % of
\* the instruments are BEARISH
SummaryOf_counting_bearish(data) ==
    LET change_pct(symbol) == GetDefault(data[symbol], "change_percent", 0)
        moves(sentiment) ==
            Cardinality({symbol \in DOMAIN data :
                            InstrumentSentiment(change_pct(symbol)) = sentiment})
        total_instruments == Cardinality(DOMAIN data)
    IN  [overall_sentiment |->
            IF total_instruments = 0 THEN "NEUTRAL"
            ELSE IF FracGT(Frac(moves("BULLISH"), total_instruments), Frac(6, 10))
                 THEN "BULLISH"
            ELSE IF FracGT(Frac(moves("BEARISH"), total_instruments), Frac(6, 10))
                 THEN "BEARISH"
            ELSE "NEUTRAL",
         instruments |->
            [symbol \in DOMAIN data |->
                [sentiment      |-> InstrumentSentiment(change_pct(symbol)),
                 change_percent |-> change_pct(symbol),
                 strength       |-> Abs(change_pct(symbol))]],
         market_strength |-> 0]

\* lines 341-377: the summary of the batch `data`
SummaryOf(data) ==
    LET change_pct(symbol) == GetDefault(data[symbol], "change_percent", 0)
        positive_moves ==
            Cardinality({symbol \in DOMAIN data :
                            InstrumentSentiment(change_pct(symbol)) = "BULLISH"})
        total_instruments == Cardinality(DOMAIN data)
    IN  [overall_sentiment |-> OverallSentiment(positive_moves, total_instruments),
         instruments |->
            [symbol \in DOMAIN data |->
                [sentiment      |-> InstrumentSentiment(change_pct(symbol)),
                 change_percent |-> change_pct(symbol),
                 strength       |-> Abs(change_pct(symbol))]],
         market_strength |-> 0]

\* create_market_summary without the guard of lines 338-339
create_market_summary_unguarded(market_data) ==
    IF market_data = None THEN Raised("AttributeError")
    ELSE SummaryOf(GetDefault(market_data, "data", <<>>))

create_market_summary(market_data) ==
    IF market_data = None THEN Raised("AttributeError")   \* None has no .get
    ELSE IF NoData(market_data)
    THEN [status |-> "No market data available"]
    ELSE SummaryOf(market_data["data"])

(***************************************************************************)
(* Alert builder                                                           *)
(***************************************************************************)
AlertText == "Exercise caution - potential market manipulation detected"

\* line 384: news_item.get('manipulation_score', 0) > 0.3
IsAlerted(news_item) ==
    FracGT(GetDefault(news_item, "manipulation_score", Frac(0, 1)), Frac(3, 10))

\* the level with the threshold taken inclusively (>= 0.6)
AlertLevel_inclusive(news_item) ==
    IF ~FracGT(Frac(6, 10), news_item["manipulation_score"]) THEN "HIGH" ELSE "MEDIUM"

\* line 386: "HIGH" if news_item['manipulation_score'] > 0.6 else "MEDIUM"
AlertLevel(news_item) ==
    IF FracGT(news_item["manipulation_score"], Frac(6, 10)) THEN "HIGH" ELSE "MEDIUM"

MakeAlert(news_item) ==
    [level              |-> AlertLevel(news_item),
     title              |-> news_item["title"],
     manipulation_score |-> news_item["manipulation_score"],
     reliability_score  |-> news_item["reliability_score"],
     recommendation     |-> AlertText]

RECURSIVE create_manipulation_alerts(_)
create_manipulation_alerts(news_data) ==
    IF news_data = <<>> THEN <<>>
    ELSE (IF IsAlerted(Head(news_data)) THEN <<MakeAlert(Head(news_data))>> ELSE <<>>)
         \o create_manipulation_alerts(Tail(news_data))

(***************************************************************************)
(* Recommendation engine                                                   *)
(***************************************************************************)
Caution(high_manipulation_alerts) ==
    [recommendation |-> "CAUTION",
     reason |-> [text |-> "{n} high-risk manipulation alerts detected",
                 n    |-> high_manipulation_alerts],
     confidence |-> Frac(3, 10)]

\* the reason carries avg_strength itself; its rendering to one decimal is not
\* modelled
Active(avg_strength) ==
    [recommendation |-> "ACTIVE",
     reason |-> [text |-> "Strong market movement detected (avg: {avg:.1f}%)",
                 avg  |-> avg_strength],
     confidence |-> Frac(8, 10)]

Monitor ==
    [recommendation |-> "MONITOR",
     reason |-> [text |-> "Low volatility environment"],
     confidence |-> Frac(6, 10)]

Hold == [recommendation |-> "HOLD", reason |-> [text |-> "Insufficient market data"]]

\* the decision with the volatility rule tested before the alert rule
Decide_strength_first(high_manipulation_alerts, avg_strength) ==
    IF FracGT(avg_strength, Frac(100, 1)) THEN Active(avg_strength)
    ELSE IF high_manipulation_alerts > 0 THEN Caution(high_manipulation_alerts)
    ELSE Monitor

\* the decision with the volatility rule made inclusive (avg_strength >= 1.0)
Decide_at_least(high_manipulation_alerts, avg_strength) ==
    IF high_manipulation_alerts > 0 THEN Caution(high_manipulation_alerts)
    ELSE IF ~FracGT(Frac(100, 1), avg_strength) THEN Active(avg_strength)
    ELSE Monitor

\* lines 414-431 with the two scalars already computed; 100 is 1.0 percent
Decide(high_manipulation_alerts, avg_strength) ==
    IF high_manipulation_alerts > 0 THEN Caution(high_manipulation_alerts)
    ELSE IF FracGT(avg_strength, Frac(100, 1)) THEN Active(avg_strength)
    ELSE Monitor

\* lines 400-412: average strength of the batch, number of HIGH alerts
AvgStrength(data) ==
    LET strength == [symbol \in DOMAIN data |->
                        Abs(GetDefault(data[symbol], "change_percent", 0))]
        total_strength == SumOver(strength, DOMAIN data)
        instrument_count == Cardinality(DOMAIN data)
    IN  IF instrument_count > 0 THEN Frac(total_strength, instrument_count)
        ELSE Frac(0, 1)

HighAlerts(news_data) ==
    LET alerts == create_manipulation_alerts(news_data)
    IN  Cardinality({a \in DOMAIN alerts : GetDefault(alerts[a], "level", "None") = "HIGH"})

\* create_trading_recommendations with the alert rule tested before the guard
\* of lines 397-398
create_trading_recommendations_alerts_first(market_data, news_data) ==
    IF market_data = None THEN Raised("AttributeError")
    ELSE IF HighAlerts(news_data) > 0 THEN Caution(HighAlerts(news_data))
    ELSE IF NoData(market_data) THEN Hold
    ELSE Decide(0, AvgStrength(market_data["data"]))

\* recommendations only for an authenticated object: without a gateway token
\* the method answers HOLD
create_trading_recommendations_token_gated(market_data, news_data) ==
    IF market_data = None THEN Raised("AttributeError")
    ELSE IF NoData(market_data) \/ topstep_token = "None" THEN Hold
    ELSE Decide(HighAlerts(news_data), AvgStrength(market_data["data"]))

create_trading_recommendations(market_data, news_data) ==
    IF market_data = None THEN Raised("AttributeError")   \* None has no .get
    ELSE IF NoData(market_data) THEN Hold
    ELSE Decide(HighAlerts(news_data), AvgStrength(market_data["data"]))

(***************************************************************************)
(* Quote fetcher                                                           *)
(***************************************************************************)
\* str.replace(old, new), old not empty
RECURSIVE StrReplace(_, _, _)
StrReplace(s, old, new) ==
    IF Len(s) < Len(old) THEN s
    ELSE IF SubSeq(s, 1, Len(old)) = old
    THEN new \o StrReplace(SubSeq(s, Len(old) + 1, Len(s)), old, new)
    ELSE <<Head(s)>> \o StrReplace(Tail(s), old, new)

\* key of a symbol in the batch: symbol.replace("=F", "")
QuoteKey(symbol) == StrReplace(symbol, <<"=","F">>, <<>>)

\* lines 200-212 for one non-empty history: closes are hist['Close']
\* (volume, high and low are not modelled)
MakeQuote(closes) ==
    LET current_price == closes[Len(closes)]
        change == current_price - closes[1]
    IN  [price          |-> current_price,
         change         |-> change,
         change_percent |-> (change * 10000) \div closes[1]]

\* the symbol's fetch returned a history with at least one bar
Fetched(outcome) == outcome.kind = "hist" /\ outcome.closes # <<>>

\* get_market_data_yahoo that lets its last-resort handler return None
get_market_data_yahoo_returns_none(yahoo) ==
    IF yahoo.fatal THEN None
    ELSE LET ok == {i \in DOMAIN instruments : Fetched(yahoo.quotes[i])}
         IN  [source |-> "Yahoo Finance",
              data   |-> [key \in {QuoteKey(instruments[i]) : i \in ok} |->
                            LET i == CHOOSE i \in ok :
                                        /\ QuoteKey(instruments[i]) = key
                                        /\ \A j \in ok : QuoteKey(instruments[j]) = key
                                                            => j =< i
                            IN  MakeQuote(yahoo.quotes[i].closes)],
              reliability_score |-> Frac(85, 100)]

\* yahoo.quotes[i] is what yfinance does for instruments[i]: the ticker raises
\* (kind "raise", caught at line 214) or returns the history `closes`;
\* yahoo.fatal is an exception that escapes the per-symbol handler and is
\* caught at line 225
\* `break` instead of going on to the next symbol: the loop ends at the first
\* symbol whose fetch fails
get_market_data_yahoo_stops_at_failure(yahoo) ==
    IF yahoo.fatal THEN <<>>
    ELSE LET ok == {i \in DOMAIN instruments :
                        \A j \in 1..i : Fetched(yahoo.quotes[j])}
         IN  [source |-> "Yahoo Finance",
              data   |-> [key \in {QuoteKey(instruments[i]) : i \in ok} |->
                            LET i == CHOOSE i \in ok : QuoteKey(instruments[i]) = key
                            IN  MakeQuote(yahoo.quotes[i].closes)],
              reliability_score |-> Frac(85, 100)]

get_market_data_yahoo(yahoo) ==
    IF yahoo.fatal THEN <<>>
    ELSE LET ok == {i \in DOMAIN instruments : Fetched(yahoo.quotes[i])}
         IN  [source |-> "Yahoo Finance",
              data   |-> [key \in {QuoteKey(instruments[i]) : i \in ok} |->
                            \* a later symbol with the same key overwrites
                            LET i == CHOOSE i \in ok :
                                        /\ QuoteKey(instruments[i]) = key
                                        /\ \A j \in ok : QuoteKey(instruments[j]) = key
                                                            => j =< i
                            IN  MakeQuote(yahoo.quotes[i].closes)],
              reliability_score |-> Frac(85, 100)]

(***************************************************************************)
(* News harvester                                                          *)
(***************************************************************************)
\* the symbols yf.Ticker is called with, in call order (line 195): all of
\* them, unless an exception leaves the loop (line 225) at the first symbol
\* whose handler is entered
TickersRequested(yahoo) ==
    IF yahoo.fatal
    THEN LET first == CHOOSE i \in DOMAIN instruments :
                          /\ yahoo.quotes[i].kind = "raise"
                          /\ \A j \in 1..(i - 1) : yahoo.quotes[j].kind # "raise"
         IN  SubSeq(instruments, 1, first)
    ELSE instruments

EntryLimit == 10

Take(s, n) == SubSeq(s, 1, IF Len(s) < n THEN Len(s) ELSE n)

\* lines 245-262: the item appended for one feed entry
NewsItem(entry, source_url) ==
    LET title == GetDefault(entry, "title", <<>>)
        summary == GetDefault(entry, "summary", GetDefault(entry, "description", <<>>))
    IN  [title              |-> title,
         summary            |-> summary,
         source             |-> source_url,
         published          |-> GetDefault(entry, "published", "None"),
         manipulation_score |-> detect_manipulation(Concat3(title, <<" ">>, summary)),
         reliability_score  |-> calculate_source_reliability(source_url)]

\* lines 240-266 for one feed: what it adds to all_news
\* `for entry in feed.entries:` without the [:10] slice
FeedItems_unlimited(feed, source_url) ==
    IF feed.kind = "raise" THEN <<>>
    ELSE [i \in DOMAIN feed.entries |-> NewsItem(feed.entries[i], source_url)]

\* all_news.insert(0, ...) within a feed: its newest item ends up last
FeedItems_reversed(feed, source_url) ==
    IF feed.kind = "raise" THEN <<>>
    ELSE LET entries == Take(feed.entries, EntryLimit)
         IN  [i \in DOMAIN entries |->
                NewsItem(entries[Len(entries) + 1 - i], source_url)]

FeedItems(feed, source_url) ==
    IF feed.kind = "raise" THEN <<>>
    ELSE LET entries == Take(feed.entries, EntryLimit)
         IN  [i \in DOMAIN entries |-> NewsItem(entries[i], source_url)]

\* the handler of the outer try instead of `continue`: the first feed that
\* fails ends the harvest
RECURSIVE Harvest_stops_at_failure(_, _)
Harvest_stops_at_failure(feeds, i) ==
    IF i > Len(news_sources) \/ feeds[i].kind = "raise" THEN <<>>
    ELSE FeedItems(feeds[i], news_sources[i]) \o Harvest_stops_at_failure(feeds, i + 1)

RECURSIVE Harvest(_, _)
Harvest(feeds, i) ==
    IF i > Len(news_sources) THEN <<>>
    ELSE FeedItems(feeds[i], news_sources[i]) \o Harvest(feeds, i + 1)

\* sorted(..., key=reliability_score, reverse=True): stable, descending
\* an insertion that puts the item in front of the items it ties with
RECURSIVE InsertByReliability_before_ties(_, _)
InsertByReliability_before_ties(sorted, item) ==
    IF sorted = <<>> THEN <<item>>
    ELSE IF ~FracGT(Head(sorted)["reliability_score"], item["reliability_score"])
    THEN <<item>> \o sorted
    ELSE <<Head(sorted)>> \o InsertByReliability_before_ties(Tail(sorted), item)

RECURSIVE InsertByReliability(_, _)
InsertByReliability(sorted, item) ==
    IF sorted = <<>> THEN <<item>>
    ELSE IF FracGT(item["reliability_score"], Head(sorted)["reliability_score"])
    THEN <<item>> \o sorted
    ELSE <<Head(sorted)>> \o InsertByReliability(Tail(sorted), item)

\* sorted(...) without reverse=True: ascending
SortedByReliability_ascending(items) ==
    LET RECURSIVE Ins(_, _)
        Ins(sorted, item) ==
            IF sorted = <<>> THEN <<item>>
            ELSE IF FracGT(Head(sorted)["reliability_score"], item["reliability_score"])
            THEN <<item>> \o sorted
            ELSE <<Head(sorted)>> \o Ins(Tail(sorted), item)
        RECURSIVE Srt(_)
        Srt(s) == IF s = <<>> THEN <<>>
                  ELSE Ins(Srt(SubSeq(s, 1, Len(s) - 1)), s[Len(s)])
    IN  Srt(items)

RECURSIVE SortedByReliability(_)
SortedByReliability(items) ==
    IF items = <<>> THEN <<>>
    ELSE InsertByReliability(SortedByReliability(SubSeq(items, 1, Len(items) - 1)),
                             items[Len(items)])

get_market_news(feeds) == SortedByReliability(Harvest(feeds, 1))

(***************************************************************************)
(* Brokerage gateway                                                       *)
(***************************************************************************)
base_urls == <<"https://gateway.projectx.com/api", "https://api.topstepx.com",
               "https://topstepx.com/api">>

auth_endpoints == <<"/auth/login", "/login", "/authenticate", "/api/auth/login">>

payloads == <<"username", "userName", "email">>

data_endpoints == <<"/accounts", "/account", "/positions", "/portfolio">>

\* data.get("token") or data.get("access_token") or data.get("authToken")
TokenOf(data) ==
    IF GetDefault(data, "token", "") # "" THEN data["token"]
    ELSE IF GetDefault(data, "access_token", "") # "" THEN data["access_token"]
    ELSE GetDefault(data, "authToken", "")

\* lines 101-143 from attempt (b, e, p) on: the token found, or "" for none.
\* An exception inside the payload loop abandons the endpoint (line 142).
RECURSIVE AuthScan(_, _, _, _, _)
AuthScan(sess, responses, b, e, p) ==
    IF b > Len(base_urls) THEN ""
    ELSE IF e > Len(auth_endpoints) THEN AuthScan(sess, responses, b + 1, 1, 1)
    ELSE IF p > Len(payloads) THEN AuthScan(sess, responses, b, e + 1, 1)
    ELSE LET r == responses[<<b, e, p>>]
         IN  IF sess # "open" \/ r.kind = "raise"
             THEN AuthScan(sess, responses, b, e + 1, 1)
             ELSE IF r.status \in {200, 201} /\ TokenOf(r.json) # ""
             THEN TokenOf(r.json)
             ELSE AuthScan(sess, responses, b, e, p + 1)

\* authenticate_topstep: the value of self.topstep_token afterwards
authenticate_topstep(sess, token, responses) ==
    LET found == AuthScan(sess, responses, 1, 1, 1)
    IN  IF found # "" THEN found ELSE token

\* lines 166-182 from endpoint i on
RECURSIVE DataScan(_, _, _)
DataScan(sess, responses, i) ==
    IF i > Len(data_endpoints) THEN None
    ELSE IF sess = "open" /\ responses[i].kind = "http" /\ responses[i].status = 200
    THEN [source            |-> "TopStepX",
          endpoint          |-> data_endpoints[i],
          data              |-> responses[i].json,
          reliability_score |-> Frac(1, 1)]
    ELSE DataScan(sess, responses, i + 1)

\* get_topstep_data without the guard of lines 154-155
get_topstep_data_without_token(sess, token, responses) ==
    DataScan(sess, responses, 1)

get_topstep_data(sess, token, responses) ==
    IF token = "None" THEN None
    ELSE DataScan(sess, responses, 1)

(***************************************************************************)
(* get_comprehensive_market_analysis                                       *)
(***************************************************************************)
\* the alerts kept in a list of the object that every cycle extends
AnalysisOf_keeps_alerts(topstep_data, yahoo_data, news_data) ==
    LET market_summary == create_market_summary(yahoo_data)
        earlier == IF "manipulation_alerts" \in DOMAIN analysis
                   THEN analysis["manipulation_alerts"] ELSE <<>>
        manipulation_alerts == earlier \o create_manipulation_alerts(news_data)
        trading_recommendations == create_trading_recommendations(yahoo_data, news_data)
    IN  IF IsRaised(market_summary)
        THEN [error |-> market_summary.raised]
        ELSE IF IsRaised(trading_recommendations)
        THEN [error |-> trading_recommendations.raised]
        ELSE [sources |-> [topstep |-> topstep_data,
                           yahoo   |-> yahoo_data,
                           news    |-> news_data],
              market_summary          |-> market_summary,
              manipulation_alerts     |-> manipulation_alerts,
              trading_recommendations |-> trading_recommendations]

\* the endpoints get_topstep_data sends a GET to, in order (lines 166-169):
\* none without a token (line 154) or without an open session, else up to
\* the first that answers 200
RECURSIVE DataRequests(_, _)
DataRequests(responses, i) ==
    IF i > Len(data_endpoints) THEN <<>>
    ELSE IF responses[i].kind = "http" /\ responses[i].status = 200
    THEN <<data_endpoints[i]>>
    ELSE <<data_endpoints[i]>> \o DataRequests(responses, i + 1)

TopstepRequests(sess, token, responses) ==
    IF token = "None" \/ sess # "open" THEN <<>>
    ELSE DataRequests(responses, 1)

\* lines 318-334: the analysis built from the three fetched batches
AnalysisOf(topstep_data, yahoo_data, news_data) ==
    LET market_summary == create_market_summary(yahoo_data)
        manipulation_alerts == create_manipulation_alerts(news_data)
        trading_recommendations == create_trading_recommendations(yahoo_data, news_data)
    IN  IF IsRaised(market_summary)
        THEN [error |-> market_summary.raised]                    \* line 334
        ELSE IF IsRaised(trading_recommendations)
        THEN [error |-> trading_recommendations.raised]
        ELSE [sources |-> [topstep |-> topstep_data,
                           yahoo   |-> yahoo_data,
                           news    |-> news_data],
              market_summary          |-> market_summary,
              manipulation_alerts     |-> manipulation_alerts,
              trading_recommendations |-> trading_recommendations]

\* lines 313-315: the three fetches, one after the other
get_comprehensive_market_analysis(sess, token, w) ==
    AnalysisOf(get_topstep_data(sess, token, w.gateway.data),
               get_market_data_yahoo(w.yahoo),
               get_market_news(w.feeds))

(***************************************************************************)
(* The outside world of the pipeline: what each fetch answers              *)
(***************************************************************************)
\* the session's closes of each instrument, in the order of `instruments`:
\* +2 %, +0.4 %, -0.6 % and a single bar (0 %)
SessionCloses ==
    << <<5000, 5050, 5100>>, <<20000, 20080>>, <<7500, 7455>>, <<2000>> >>

\* for instrument i: the ticker raises, its history is empty, or it is there
QuoteOutcomes(i) ==
    {[kind |-> "raise"],
     [kind |-> "hist", closes |-> <<>>],
     [kind |-> "hist", closes |-> SessionCloses[i]]}

QuoteWorlds ==
    {q \in [DOMAIN instruments -> UNION {QuoteOutcomes(i) : i \in DOMAIN instruments}] :
        \A i \in DOMAIN instruments : q[i] \in QuoteOutcomes(i)}

YahooWorlds ==
    {[fatal |-> FALSE, quotes |-> q] : q \in QuoteWorlds}
    \cup {[fatal |-> TRUE, quotes |-> [i \in DOMAIN instruments |-> [kind |-> "raise"]]]}

\* title only; scores 0
EntryBenign ==
    [title |->
        <<"F","e","d"," ","h","o","l","d","s"," ","r","a","t","e","s"," ","s","t","e","a","d","y">>,
     published |-> "Mon, 02 Nov 2026 14:00:00 GMT"]

\* nine keywords, upper case, three exclamation marks: 11/12
EntryHigh ==
    [title |->
        <<"U","N","P","R","E","C","E","D","E","N","T","E","D"," ","H","I","S","T","O","R","I","C",
          " ","C","R","A","S","H","!","!","!">>,
     summary |->
        <<"S","H","O","C","K","I","N","G"," ","E","M","E","R","G","E","N","C","Y"," ","C","R","I",
          "S","I","S",":"," ","M","O","O","N"," ","R","O","C","K","E","T"," ","B","U","B","B","L",
          "E">>,
     published |-> "Mon, 02 Nov 2026 15:30:00 GMT"]

\* no title, no summary, a description with four keywords: 4/12
EntryMedium ==
    [description |->
        <<"c","r","i","s","i","s"," ","a","n","d"," ","c","r","a","s","h",":"," ","a"," ","s","h",
          "o","c","k","i","n","g"," ","b","u","b","b","l","e","?">>]

\* feedparser.parse raises, or returns the entries
FeedOutcomes ==
    {[kind |-> "raise"],
     [kind |-> "parsed", entries |-> <<EntryBenign>>],
     [kind |-> "parsed", entries |-> <<EntryHigh, EntryMedium>>]}

AuthAttempts == (DOMAIN base_urls) \X (DOMAIN auth_endpoints) \X (DOMAIN payloads)

Unauthorized == [kind |-> "http", status |-> 401, json |-> <<>>]

\* no connection at all
GatewayDown ==
    [auth |-> [a \in AuthAttempts |-> [kind |-> "raise"]],
     data |-> [i \in DOMAIN data_endpoints |-> [kind |-> "raise"]]]

\* the second payload of the first endpoint logs in; /positions answers
GatewayUp ==
    [auth |-> [a \in AuthAttempts |->
                IF a = <<1, 1, 2>>
                THEN [kind |-> "http", status |-> 200,
                      json |-> [token |-> "", access_token |-> "jwt-1"]]
                ELSE Unauthorized],
     data |-> [i \in DOMAIN data_endpoints |->
                IF i = 1 THEN [kind |-> "http", status |-> 404, json |-> "not found"]
                ELSE IF i = 2 THEN [kind |-> "raise"]
                ELSE [kind |-> "http", status |-> 200, json |-> "snapshot"]]]

\* the first payload raises, so the endpoint is abandoned although its second
\* payload would log in; a later endpoint logs in; no data endpoint answers
GatewayLoginOnly ==
    [auth |-> [a \in AuthAttempts |->
                IF a = <<1, 1, 1>> THEN [kind |-> "raise"]
                ELSE IF a = <<1, 1, 2>>
                THEN [kind |-> "http", status |-> 200, json |-> [token |-> "jwt-skipped"]]
                ELSE IF a = <<2, 3, 1>>
                THEN [kind |-> "http", status |-> 201, json |-> [authToken |-> "jwt-2"]]
                ELSE Unauthorized],
     data |-> [i \in DOMAIN data_endpoints |->
                [kind |-> "http", status |-> 403, json |-> "forbidden"]]]

GatewayWorlds == {GatewayDown, GatewayUp, GatewayLoginOnly}

Worlds ==
    {[yahoo |-> y, feeds |-> f, gateway |-> g] :
        y \in YahooWorlds, f \in [DOMAIN news_sources -> FeedOutcomes], g \in GatewayWorlds}

(***************************************************************************)
(* The object: construction, context entry and exit, one analysis cycle    *)
(***************************************************************************)
NoAnalysis == [pending |-> TRUE]

NoCall == [op |-> "none"]

NotCalled == [called |-> FALSE]

\* no analysis is running
Idle == [pc |-> "idle"]

\* the dashboard script has not run
NotStarted == [started |-> FALSE]

\* TopStepAPI.session_token after __init__: None
NoToken == [t |-> "null"]

Returned(v) == [called |-> TRUE, value |-> v]

\* __init__ (lines 68-70)
Constructed ==
    /\ session = "None"
    /\ topstep_token = "None"
    /\ analysis = NoAnalysis

Init ==
    /\ Constructed
    /\ world \in Worlds
    /\ fn_args = NoCall
    /\ fn_ret = NotCalled
    /\ cycle = Idle
    /\ session_state = NotStarted
    /\ session_token = NoToken

\* __aenter__: a new session, then authenticate_topstep
AEnter ==
    /\ session # "open"
    /\ session' = "open"
    /\ topstep_token' = authenticate_topstep("open", topstep_token, world.gateway.auth)
    /\ UNCHANGED <<world, analysis, fn_args, fn_ret, cycle, session_state, session_token>>

\* __aexit__
AExit ==
    /\ session = "open"
    /\ session' = "closed"
    /\ UNCHANGED <<topstep_token, world, analysis, fn_args, fn_ret, cycle, session_state,
                   session_token>>

GetComprehensiveMarketAnalysis ==
    /\ analysis' = get_comprehensive_market_analysis(session, topstep_token, world)
    /\ UNCHANGED <<session, topstep_token, world, fn_args, fn_ret, cycle, session_state,
                   session_token>>

Next == AEnter \/ AExit \/ GetComprehensiveMarketAnalysis

Spec == Init /\ [][Next]_vars


(***************************************************************************)
(* One analysis, call by call.  get_comprehensive_market_analysis awaits   *)
(* the gateway, then runs the quote fetch, then the feed loop, each to its *)
(* end before the next starts; no call is given a timeout.                 *)
(***************************************************************************)
\* the feed's server accepts the connection and never answers:
\* feedparser.parse(source_url) (line 242) does not return
Stalls(feed) == feed.kind = "stall"

CycleYahooWorlds ==
    {y \in YahooWorlds :
        \/ y.fatal
        \/ \A i \in DOMAIN instruments : Fetched(y.quotes[i])
        \/ \A i \in DOMAIN instruments : y.quotes[i].kind = "raise" <=> i = 1}

CycleWorlds ==
    {[yahoo |-> y, feeds |-> f, gateway |-> GatewayDown] :
        y \in CycleYahooWorlds,
        f \in [DOMAIN news_sources -> FeedOutcomes \cup {[kind |-> "stall"]}]}

InitCycle ==
    /\ Constructed
    /\ world \in CycleWorlds
    /\ fn_args = NoCall
    /\ fn_ret = NotCalled
    /\ cycle = Idle
    /\ session_state = NotStarted
    /\ session_token = NoToken

\* line 309: the coroutine is entered
BeginAnalysis ==
    /\ cycle.pc = "idle"
    /\ analysis = NoAnalysis
    /\ cycle' = [pc |-> "topstep"]
    /\ UNCHANGED <<session, topstep_token, world, analysis, fn_args, fn_ret,
                   session_state, session_token>>

\* line 313: await self.get_topstep_data()
AwaitTopstepData ==
    /\ cycle.pc = "topstep"
    /\ cycle' = [pc           |-> "yahoo",
                 topstep_data |-> get_topstep_data(session, topstep_token,
                                                   world.gateway.data)]
    /\ UNCHANGED <<session, topstep_token, world, analysis, fn_args, fn_ret,
                   session_state, session_token>>

\* line 314: self.get_market_data_yahoo()
AwaitYahooData ==
    /\ cycle.pc = "yahoo"
    /\ cycle' = [pc           |-> "news",
                 topstep_data |-> cycle.topstep_data,
                 yahoo_data   |-> get_market_data_yahoo(world.yahoo),
                 feed         |-> 1,
                 all_news     |-> <<>>]
    /\ UNCHANGED <<session, topstep_token, world, analysis, fn_args, fn_ret,
                   session_state, session_token>>

\* lines 240-266, one turn of the loop: it ends when feedparser.parse has
\* returned or raised
ParseFeed ==
    /\ cycle.pc = "news"
    /\ cycle.feed =< Len(news_sources)
    /\ ~Stalls(world.feeds[cycle.feed])
    /\ cycle' = [cycle EXCEPT
                    !.feed = @ + 1,
                    !.all_news = @ \o FeedItems(world.feeds[cycle.feed],
                                                news_sources[cycle.feed])]
    /\ UNCHANGED <<session, topstep_token, world, analysis, fn_args, fn_ret,
                   session_state, session_token>>

\* lines 268 and 319-330: sort, combine, return
ReturnAnalysis ==
    /\ cycle.pc = "news"
    /\ cycle.feed > Len(news_sources)
    /\ analysis' = AnalysisOf(cycle.topstep_data, cycle.yahoo_data,
                              SortedByReliability(cycle.all_news))
    /\ cycle' = [pc |-> "done"]
    /\ UNCHANGED <<session, topstep_token, world, fn_args, fn_ret, session_state, session_token>>

NextCycle ==
    \/ BeginAnalysis
    \/ AwaitTopstepData
    \/ AwaitYahooData
    \/ ParseFeed
    \/ ReturnAnalysis

\* the event loop runs the coroutine on whenever the call it waits for has
\* returned
SpecCycle == InitCycle /\ [][NextCycle]_vars /\ WF_vars(NextCycle)


(***************************************************************************)
(* Several analyses on one object while the market moves: between two      *)
(* cycles the sources may answer differently                               *)
(***************************************************************************)
MaxCycles == 2

\* the number of analyses the object has completed
Completed(c) == IF "completed" \in DOMAIN c THEN c.completed ELSE 0

MovingFeeds ==
    {[i \in DOMAIN news_sources |-> [kind |-> "raise"]],
     [i \in DOMAIN news_sources |->
        IF i = 2 THEN [kind |-> "parsed", entries |-> <<EntryBenign>>]
        ELSE [kind |-> "raise"]],
     [i \in DOMAIN news_sources |->
        IF i = 1 THEN [kind |-> "parsed", entries |-> <<EntryHigh, EntryMedium>>]
        ELSE [kind |-> "parsed", entries |-> <<EntryBenign>>]]}

MovingWorlds ==
    {[yahoo |-> y, feeds |-> f, gateway |-> GatewayUp] :
        y \in {y \in CycleYahooWorlds :
                \A i \in 2..Len(instruments) : y.fatal \/ Fetched(y.quotes[i])},
        f \in MovingFeeds}

InitCycles ==
    /\ Constructed
    /\ world \in MovingWorlds
    /\ fn_args = NoCall
    /\ fn_ret = NotCalled
    /\ cycle = Idle
    /\ session_state = NotStarted
    /\ session_token = NoToken

\* between two cycles quotes and feeds change
MarketMoves ==
    /\ \E w \in MovingWorlds : w # world /\ world' = w
    /\ UNCHANGED <<session, topstep_token, analysis, fn_args, fn_ret, cycle,
                   session_state, session_token>>

\* one whole get_comprehensive_market_analysis, counted
AnalysisCycle ==
    /\ Completed(cycle) < MaxCycles
    /\ analysis' = get_comprehensive_market_analysis(session, topstep_token, world)
    /\ cycle' = [pc |-> "idle", completed |-> Completed(cycle) + 1]
    /\ UNCHANGED <<session, topstep_token, world, fn_args, fn_ret, session_state, session_token>>

NextCycles ==
    \/ AEnter
    \/ AExit
    \/ MarketMoves
    \/ AnalysisCycle

SpecCycles == InitCycles /\ [][NextCycles]_vars


(***************************************************************************)
(* The object with and without the brokerage gateway: the context is       *)
(* entered and left, get_topstep_data and the analysis are called          *)
(***************************************************************************)
\* every login is refused although the data endpoints would answer
GatewayRefuses ==
    [auth |-> [a \in AuthAttempts |->
                IF a[3] = 1 THEN Unauthorized
                ELSE IF a[3] = 2
                THEN [kind |-> "http", status |-> 200, json |-> [message |-> "no such user"]]
                ELSE [kind |-> "raise"]],
     data |-> [i \in DOMAIN data_endpoints |->
                [kind |-> "http", status |-> 200, json |-> "snapshot"]]]

OfflineWorlds ==
    {[yahoo |-> y, feeds |-> f, gateway |-> g] :
        y \in {y \in CycleYahooWorlds :
                \A i \in 2..Len(instruments) : y.fatal \/ Fetched(y.quotes[i])},
        f \in MovingFeeds,
        g \in {GatewayDown, GatewayRefuses, GatewayUp}}

InitOffline ==
    /\ Constructed
    /\ world \in OfflineWorlds
    /\ fn_args = [op |-> "get_topstep_data"]
    /\ fn_ret = NotCalled
    /\ cycle = Idle
    /\ session_state = NotStarted
    /\ session_token = NoToken

\* the call returns its value; `requests` records the GETs it sent
CallGetTopstepData ==
    /\ fn_args.op = "get_topstep_data"
    /\ ~fn_ret.called
    /\ fn_ret' = [called   |-> TRUE,
                  value    |-> get_topstep_data(session, topstep_token, world.gateway.data),
                  requests |-> TopstepRequests(session, topstep_token, world.gateway.data)]
    /\ UNCHANGED <<session, topstep_token, world, analysis, fn_args, cycle,
                   session_state, session_token>>

NextOffline ==
    \/ AEnter
    \/ AExit
    \/ CallGetTopstepData
    \/ GetComprehensiveMarketAnalysis

SpecOffline == InitOffline /\ [][NextOffline]_vars

(***************************************************************************)
(* Direct calls of one method on a constructed object: the arguments are   *)
(* drawn in the initial state, the action applies the method to them       *)
(***************************************************************************)
MaxFragments == 3

MaxBatch == 5

MaxRecBatch == 3

MaxNews == 2

QuietWorld ==
    [yahoo   |-> [fatal |-> TRUE, quotes |-> [i \in DOMAIN instruments |-> [kind |-> "raise"]]],
     feeds   |-> [i \in DOMAIN news_sources |-> [kind |-> "raise"]],
     gateway |-> GatewayDown]

DirectCall(inputs) ==
    /\ Constructed
    /\ world = QuietWorld
    /\ fn_args \in inputs
    /\ fn_ret = NotCalled
    /\ cycle = Idle
    /\ session_state = NotStarted
    /\ session_token = NoToken

Return(v) ==
    /\ ~fn_ret.called
    /\ fn_ret' = Returned(v)
    /\ UNCHANGED <<session, topstep_token, world, analysis, fn_args, cycle,
                   session_state, session_token>>

\* ---- detect_manipulation(text) ----
Fragments ==
    {<<"u","n","p","r","e","c","e","d","e","n","t","e","d"," ","n","e","v","e","r"," ","s","e",
       "e","n"," ","b","e","f","o","r","e"," ","h","i","s","t","o","r","i","c"," ","s","h","o",
       "c","k","i","n","g"," ","e","m","e","r","g","e","n","c","y"," ">>,
     <<"C","R","I","S","I","S"," ","C","R","A","S","H"," ","B","U","B","B","L","E"," ","M","O",
       "O","N"," ","R","O","C","K","E","T">>,
     <<"U","N","P","R","E","C","E","D","E","N","T","E","D"," ","N","E","V","E","R"," ","S","E",
       "E","N"," ","B","E","F","O","R","E"," ","H","I","S","T","O","R","I","C"," ","S","H","O",
       "C","K","I","N","G"," ","E","M","E","R","G","E","N","C","Y"," ">>,
     <<"f","e","d"," ","h","o","l","d","s"," ","r","a","t","e","s"," ">>,
     <<"C","r","a","s","h"," ">>,
     <<"T","H","E"," ","F","E","D"," ">>,
     <<"!","!","!">>,
     <<"!","!">>,
     <<"?","?">>,
     <<"?">>}

RECURSIVE TextsUpTo(_)
TextsUpTo(n) ==
    IF n = 0 THEN {<<>>}
    ELSE LET shorter == TextsUpTo(n - 1)
         IN  shorter \cup {t \o f : t \in shorter, f \in Fragments}

DetectInputs == {[op |-> "detect_manipulation", text |-> t] : t \in TextsUpTo(MaxFragments)}

InitDetect == DirectCall(DetectInputs)

CallDetectManipulation ==
    /\ fn_args.op = "detect_manipulation"
    /\ Return(detect_manipulation(fn_args.text))

SpecDetect == InitDetect /\ [][CallDetectManipulation]_vars

\* ---- quote batches for the summarizer and the recommendation engine ----
\* "ES", "NQ", "CL", "GC", "YM", "SI", "ZB", "HG"
BatchSymbols ==
    << <<"E","S">>, <<"N","Q">>, <<"C","L">>, <<"G","C">>, <<"Y","M">>, <<"S","I">>,
       <<"Z","B">>, <<"H","G">> >>

\* a quote with the given percent change, or one without the field
QuotesWith(pcts) ==
    {[price |-> 1000, change_percent |-> p] : p \in pcts} \cup {[price |-> 1000]}

\* the batches of the first k symbols, k = 0 .. n
Batches(n, quotes) ==
    UNION {[{BatchSymbols[i] : i \in 1..k} -> quotes] : k \in 0..n}

\* {} (the fetcher's last resort) and the tagged batches
MarketDataInputs(n, quotes) ==
    {<<>>} \cup {[source |-> "Yahoo Finance", data |-> d, reliability_score |-> Frac(85, 100)] :
                    d \in Batches(n, quotes)}

\* ---- create_market_summary(market_data) ----
SummaryPcts == {-51, -50, 0, 50, 51}

SummaryInputs ==
    {[op |-> "create_market_summary", market_data |-> m] :
        m \in MarketDataInputs(MaxBatch, QuotesWith(SummaryPcts))}

InitSummary == DirectCall(SummaryInputs)

CallCreateMarketSummary ==
    /\ fn_args.op = "create_market_summary"
    /\ Return(create_market_summary(fn_args.market_data))

SpecSummary == InitSummary /\ [][CallCreateMarketSummary]_vars

\* ---- create_manipulation_alerts(news_data) ----
TitleA == <<"R","a","t","e","s"," ","o","n"," ","h","o","l","d">>

TitleB == <<"M","A","R","K","E","T"," ","C","R","A","S","H">>

\* 0, 0.3, 4/12, 0.6, 8/12, 1
AlertScores == {Frac(0, 12), Frac(3, 10), Frac(4, 12), Frac(6, 10), Frac(8, 12), Frac(12, 12)}

NewsItemsWith(titles, scores, reliabilities) ==
    {[title |-> t, manipulation_score |-> m, reliability_score |-> r] :
        t \in titles, m \in scores, r \in reliabilities}
    \cup {[title |-> t, reliability_score |-> r] : t \in titles, r \in reliabilities}

SeqsUpTo(n, S) == UNION {[1..k -> S] : k \in 0..n}

AlertInputs ==
    {[op |-> "create_manipulation_alerts", news_data |-> n] :
        n \in SeqsUpTo(MaxNews, NewsItemsWith({TitleA, TitleB}, AlertScores,
                                              {Frac(9, 10), Frac(6, 10)}))}

InitAlerts == DirectCall(AlertInputs)

CallCreateManipulationAlerts ==
    /\ fn_args.op = "create_manipulation_alerts"
    /\ Return(create_manipulation_alerts(fn_args.news_data))

SpecAlerts == InitAlerts /\ [][CallCreateManipulationAlerts]_vars

\* ---- create_trading_recommendations(market_data, news_data) ----
RecPcts == {-200, 0, 100, 101}

RecScores == {Frac(0, 12), Frac(6, 10), Frac(7, 12), Frac(8, 12)}

RecInputs ==
    {[op |-> "create_trading_recommendations", market_data |-> m, news_data |-> n] :
        m \in MarketDataInputs(MaxRecBatch, QuotesWith(RecPcts)),
        n \in SeqsUpTo(MaxNews, NewsItemsWith({TitleB}, RecScores, {Frac(6, 10)}))}

InitRec == DirectCall(RecInputs)

CallCreateTradingRecommendations ==
    /\ fn_args.op = "create_trading_recommendations"
    /\ Return(create_trading_recommendations(fn_args.market_data, fn_args.news_data))

SpecRec == InitRec /\ [][CallCreateTradingRecommendations]_vars

\* ---- create_trading_recommendations on an object in use: the context is
\* entered and left before and after the call ----
MaxObjBatch == 2

MaxObjNews == 1

RecObjectInputs ==
    {[op |-> "create_trading_recommendations", market_data |-> m, news_data |-> n] :
        m \in MarketDataInputs(MaxObjBatch, QuotesWith(RecPcts)),
        n \in SeqsUpTo(MaxObjNews, NewsItemsWith({TitleB}, RecScores, {Frac(6, 10)}))}

InitRecObject ==
    /\ Constructed
    /\ world = [QuietWorld EXCEPT !.gateway = GatewayUp]
    /\ fn_args \in RecObjectInputs
    /\ fn_ret = NotCalled
    /\ cycle = Idle
    /\ session_state = NotStarted
    /\ session_token = NoToken

NextRecObject ==
    \/ AEnter
    \/ AExit
    \/ CallCreateTradingRecommendations

SpecRecObject == InitRecObject /\ [][NextRecObject]_vars

\* ---- calculate_source_reliability(source) ----
MaxUrlParts == 2

\* pieces of source strings: trusted domains whole, split in two, with a
\* capital letter, and hosts that are not trusted
UrlParts ==
    {<<"h","t","t","p","s",":","/","/","w","w","w",".">>,
     <<"f","e","e","d","s",".","f","i","n","a","n","c","e",".","y","a","h","o","o",".","c","o",
       "m">>,
     <<"R","e","u","t","e","r","s",".","c","o","m">>,
     <<"r","e","u","t","e","r","s",".","c","o","m">>,
     <<"b","l","o","o","m","b","e","r","g",".","c","o","m">>,
     <<"w","s","j",".","c","o","m">>,
     <<"s","e","c",".","g","o">>,
     <<"v","/","r","s","s">>,
     <<"c","m","e","g","r","o","u","p",".","c","o">>,
     <<"m">>,
     <<"f","e","d","e","r","a","l","r","e","s","e","r","v","e">>,
     <<"t","r","e","a","s","u","r","y">>,
     <<".","g","o","v">>}

RECURSIVE UrlsUpTo(_)
UrlsUpTo(n) ==
    IF n = 0 THEN {<<>>}
    ELSE LET shorter == UrlsUpTo(n - 1)
         IN  shorter \cup {u \o p : u \in shorter, p \in UrlParts}

ReliabilityInputs ==
    {[op |-> "calculate_source_reliability", source |-> s] :
        s \in UrlsUpTo(MaxUrlParts) \cup {news_sources[i] : i \in DOMAIN news_sources}}

InitReliability == DirectCall(ReliabilityInputs)

CallCalculateSourceReliability ==
    /\ fn_args.op = "calculate_source_reliability"
    /\ Return(calculate_source_reliability(fn_args.source))

SpecReliability == InitReliability /\ [][CallCalculateSourceReliability]_vars

\* ---- get_market_news(): the feeds are what feedparser.parse answers ----
MaxEntries == 11

\* the j-th entry a feed server publishes: a title and a date, a title and a
\* summary, or a description only, each marked with the letter of j
FeedEntry(j) ==
    CASE j % 3 = 1 -> [title     |-> <<"R","a","t","e","s"," ">> \o <<UpperLetters[j]>>,
                       published |-> "Mon, 02 Nov 2026 14:00:00 GMT"]
      [] j % 3 = 2 -> [title   |-> <<"C","R","A","S","H","!"," ">> \o <<UpperLetters[j]>>,
                       summary |-> <<"c","r","i","s","i","s"," ">> \o <<LowerLetters[j]>>]
      [] OTHER     -> [description |-> <<"b","u","b","b","l","e","?"," ">> \o <<UpperLetters[j]>>]

\* none, a few, and around the limit of ten
FeedLengths == {0, 1, 2} \cup ((MaxEntries - 2)..MaxEntries)

\* feedparser.parse raises, or returns n entries starting at the first or the
\* second published one
FeedAnswers ==
    {[kind |-> "raise"]}
    \cup {[kind |-> "parsed", entries |-> [k \in 1..n |-> FeedEntry(first + k)]] :
            n \in FeedLengths, first \in {0, 1}}

NewsInputs ==
    {[op |-> "get_market_news", feeds |-> f] : f \in [DOMAIN news_sources -> FeedAnswers]}

InitNews == DirectCall(NewsInputs)

CallGetMarketNews ==
    /\ fn_args.op = "get_market_news"
    /\ Return(get_market_news(fn_args.feeds))

SpecNews == InitNews /\ [][CallGetMarketNews]_vars

\* ---- get_market_data_yahoo(): the quotes are what yfinance answers ----
YahooInputs == {[op |-> "get_market_data_yahoo", yahoo |-> y] : y \in YahooWorlds}

InitYahoo == DirectCall(YahooInputs)

\* the call returns its mapping; `tickers` records the requests it made
CallGetMarketDataYahoo ==
    /\ fn_args.op = "get_market_data_yahoo"
    /\ ~fn_ret.called
    /\ fn_ret' = [called  |-> TRUE,
                  value   |-> get_market_data_yahoo(fn_args.yahoo),
                  tickers |-> TickersRequested(fn_args.yahoo)]
    /\ UNCHANGED <<session, topstep_token, world, analysis, fn_args, cycle,
                   session_state, session_token>>

SpecYahoo == InitYahoo /\ [][CallGetMarketDataYahoo]_vars


(***************************************************************************)
(* FuturesTradingAI (src/ai_trading_assistant.py)                          *)
(*                                                                         *)
(* A Python value that json.loads can return or a parse helper can build   *)
(* is a record tagged t: "dict" with the sequence of its [k, v] items in    *)
(* insertion order, "list" with its elements, "str" with its characters,   *)
(* "int", "bool", or "null" for None.                                      *)
(*                                                                         *)
(* JsonLoads covers objects, arrays, strings without escapes, integers and *)
(* the three literals; floats, escapes and NaN/Infinity are not in the     *)
(* texts it is applied to.                                                 *)
(***************************************************************************)
PyStr(chars) == [t |-> "str", chars |-> chars]

PyInt(n) == [t |-> "int", n |-> n]

PyBool(b) == [t |-> "bool", b |-> b]

PyNull == [t |-> "null"]

PyList(elements) == [t |-> "list", elements |-> elements]

PyDict(items) == [t |-> "dict", items |-> items]

Item(key, value) == [k |-> key, v |-> value]

\* d[key] = value on a dict's items: a present key keeps its place
RECURSIVE SetItem(_, _, _)
SetItem(items, key, value) ==
    IF items = <<>> THEN <<Item(key, value)>>
    ELSE IF Head(items).k = key THEN <<Item(key, value)>> \o Tail(items)
    ELSE <<Head(items)>> \o SetItem(Tail(items), key, value)

\* d.get(key), None when the key is missing
PyGet(d, key) ==
    IF \E i \in DOMAIN d.items : d.items[i].k = key
    THEN d.items[CHOOSE i \in DOMAIN d.items : d.items[i].k = key].v
    ELSE PyNull

Digits == <<"0","1","2","3","4","5","6","7","8","9">>

IsDigit(c) == \E i \in DOMAIN Digits : Digits[i] = c

DigitValue(c) == (CHOOSE i \in DOMAIN Digits : Digits[i] = c) - 1

IsJsonSpace(c) == c \in {" ", "\n", "\t", "\r"}

\* a failed parse, and a value parsed up to (not including) position next
NoParse == [ok |-> FALSE]

Parsed(value, next) == [ok |-> TRUE, val |-> value, next |-> next]

\* the first position from i on that holds no whitespace (Len + 1 at the end)
RECURSIVE SkipSpace(_, _)
SkipSpace(text, i) ==
    IF i =< Len(text) /\ IsJsonSpace(text[i]) THEN SkipSpace(text, i + 1) ELSE i

\* text holds word at position i
HasAt(text, i, word) ==
    /\ i + Len(word) - 1 =< Len(text)
    /\ \A j \in DOMAIN word : text[i + j - 1] = word[j]

\* the digits from position i on, as a number continuing n
RECURSIVE ScanDigits(_, _, _)
ScanDigits(text, i, n) ==
    IF i =< Len(text) /\ IsDigit(text[i])
    THEN ScanDigits(text, i + 1, 10 * n + DigitValue(text[i]))
    ELSE Parsed(n, i)

\* an integer: 0 or a digit string without leading zero
ScanNumber(text, i) ==
    IF i > Len(text) \/ ~IsDigit(text[i]) THEN NoParse
    ELSE IF text[i] = "0" THEN Parsed(0, i + 1)
    ELSE ScanDigits(text, i, 0)

\* a string from its opening quote at i - 1 on: up to the closing quote, no
\* control character inside
RECURSIVE ScanString(_, _, _)
ScanString(text, i, chars) ==
    IF i > Len(text) \/ text[i] \in {"\n", "\t", "\r"} THEN NoParse
    ELSE IF text[i] = "\"" THEN Parsed(chars, i + 1)
    ELSE ScanString(text, i + 1, Append(chars, text[i]))

\* the scanner of json.loads: one value starting exactly at position i; an
\* object's members and an array's elements from the position after the
\* opening bracket or the separating comma
RECURSIVE ScanValue(_, _), ScanMembers(_, _, _), ScanElements(_, _, _)
ScanValue(text, i) ==
    IF i > Len(text) THEN NoParse
    ELSE IF text[i] = "\"" THEN
        LET s == ScanString(text, i + 1, <<>>)
        IN  IF s.ok THEN Parsed(PyStr(s.val), s.next) ELSE NoParse
    ELSE IF text[i] = "{" THEN
        LET j == SkipSpace(text, i + 1)
        IN  IF j =< Len(text) /\ text[j] = "}" THEN Parsed(PyDict(<<>>), j + 1)
            ELSE ScanMembers(text, j, <<>>)
    ELSE IF text[i] = "[" THEN
        LET j == SkipSpace(text, i + 1)
        IN  IF j =< Len(text) /\ text[j] = "]" THEN Parsed(PyList(<<>>), j + 1)
            ELSE ScanElements(text, j, <<>>)
    ELSE IF HasAt(text, i, <<"n","u","l","l">>) THEN Parsed(PyNull, i + 4)
    ELSE IF HasAt(text, i, <<"t","r","u","e">>) THEN Parsed(PyBool(TRUE), i + 4)
    ELSE IF HasAt(text, i, <<"f","a","l","s","e">>) THEN Parsed(PyBool(FALSE), i + 5)
    ELSE IF text[i] = "-" THEN
        LET n == ScanNumber(text, i + 1)
        IN  IF n.ok THEN Parsed(PyInt(0 - n.val), n.next) ELSE NoParse
    ELSE
        LET n == ScanNumber(text, i)
        IN  IF n.ok THEN Parsed(PyInt(n.val), n.next) ELSE NoParse

ScanMembers(text, i, items) ==
    IF i > Len(text) \/ text[i] # "\"" THEN NoParse
    ELSE
        LET key == ScanString(text, i + 1, <<>>)
            colon == SkipSpace(text, key.next)
            value == ScanValue(text, SkipSpace(text, colon + 1))
            end == SkipSpace(text, value.next)
        IN  IF ~key.ok THEN NoParse
            ELSE IF colon > Len(text) \/ text[colon] # ":" THEN NoParse
            ELSE IF ~value.ok THEN NoParse
            ELSE IF end > Len(text) THEN NoParse
            ELSE IF text[end] = "}"
                 THEN Parsed(PyDict(SetItem(items, key.val, value.val)), end + 1)
            ELSE IF text[end] = ","
                 THEN ScanMembers(text, SkipSpace(text, end + 1),
                                  SetItem(items, key.val, value.val))
            ELSE NoParse

ScanElements(text, i, elements) ==
    LET value == ScanValue(text, i)
        end == SkipSpace(text, value.next)
    IN  IF ~value.ok THEN NoParse
        ELSE IF end > Len(text) THEN NoParse
        ELSE IF text[end] = "]"
             THEN Parsed(PyList(Append(elements, value.val)), end + 1)
        ELSE IF text[end] = ","
             THEN ScanElements(text, SkipSpace(text, end + 1),
                               Append(elements, value.val))
        ELSE NoParse

\* json.loads taking the first value of the text and ignoring what follows
json_loads_first_value(s) ==
    IF s.t # "str" THEN Raised("TypeError")
    ELSE
        LET value == ScanValue(s.chars, SkipSpace(s.chars, 1))
        IN  IF value.ok THEN value.val ELSE Raised("JSONDecodeError")

\* json.loads(s): the value of a text that is one JSON value between
\* optional whitespace; TypeError for None, JSONDecodeError otherwise
json_loads(s) ==
    IF s.t # "str" THEN Raised("TypeError")
    ELSE
        LET value == ScanValue(s.chars, SkipSpace(s.chars, 1))
        IN  IF value.ok /\ SkipSpace(s.chars, value.next) = Len(s.chars) + 1
            THEN value.val
            ELSE Raised("JSONDecodeError")

\* the string literals of the class, as Python strings
Lit ==
    [ sentiment |-> <<"s","e","n","t","i","m","e","n","t">>,
      analysis |-> <<"a","n","a","l","y","s","i","s">>,
      timestamp |-> <<"t","i","m","e","s","t","a","m","p">>,
      symbol |-> <<"s","y","m","b","o","l">>,
      signal |-> <<"s","i","g","n","a","l">>,
      confidence |-> <<"c","o","n","f","i","d","e","n","c","e">>,
      assessment |-> <<"a","s","s","e","s","s","m","e","n","t">>,
      details |-> <<"d","e","t","a","i","l","s">>,
      approval |-> <<"a","p","p","r","o","v","a","l">>,
      error |-> <<"e","r","r","o","r">>,
      fallback_analysis |-> <<"f","a","l","l","b","a","c","k","_","a","n",
          "a","l","y","s","i","s">>,
      recommendation |-> <<"r","e","c","o","m","m","e","n","d","a","t","i",
          "o","n">>,
      risk_level |-> <<"r","i","s","k","_","l","e","v","e","l">>,
      basic_analysis |-> <<"b","a","s","i","c","_","a","n","a","l","y","s",
          "i","s">>,
      reason |-> <<"r","e","a","s","o","n">>,
      message |-> <<"m","e","s","s","a","g","e">>,
      total_trades |-> <<"t","o","t","a","l","_","t","r","a","d","e","s">>,
      total_pnl |-> <<"t","o","t","a","l","_","p","n","l">>,
      win_rate |-> <<"w","i","n","_","r","a","t","e">>,
      status |-> <<"s","t","a","t","u","s">>,
      Neutral |-> <<"N","e","u","t","r","a","l">>,
      NEUTRAL |-> <<"N","E","U","T","R","A","L">>,
      Medium |-> <<"M","e","d","i","u","m">>,
      Good |-> <<"G","o","o","d">>,
      REJECTED |-> <<"R","E","J","E","C","T","E","D">>,
      MANUAL_REVIEW |-> <<"M","A","N","U","A","L","_","R","E","V","I","E",
          "W">>,
      analysis_completed |-> <<"A","n","a","l","y","s","i","s"," ","c","o",
          "m","p","l","e","t","e","d">>,
      needs_improvement |-> <<"N","e","e","d","s"," ","I","m","p","r","o",
          "v","e","m","e","n","t">>,
      monitor |-> <<"M","o","n","i","t","o","r"," ","m","a","r","k","e","t",
          " ","c","o","n","d","i","t","i","o","n","s"," ","b","e","f","o",
          "r","e"," ","t","r","a","d","i","n","g">>,
      manual_review_required |-> <<"M","a","n","u","a","l"," ","r","e","v",
          "i","e","w"," ","r","e","q","u","i","r","e","d">>,
      no_trades |-> <<"N","o"," ","t","r","a","d","e","s"," ","t","o"," ",
          "a","n","a","l","y","z","e">>,
      ai_api_error |-> <<"A","I"," ","A","P","I"," ","e","r","r","o","r",
          ":"," ">>,
      risk_analysis_error |-> <<"R","i","s","k"," ","a","n","a","l","y","s",
          "i","s"," ","e","r","r","o","r",":"," ">>,
      not_serializable |-> <<"O","b","j","e","c","t"," ","o","f"," ","t",
          "y","p","e"," ","d","a","t","e","t","i","m","e"," ","i","s"," ",
          "n","o","t"," ","J","S","O","N"," ","s","e","r","i","a","l","i",
          "z","a","b","l","e">>,
      bad_operand |-> <<"u","n","s","u","p","p","o","r","t","e","d"," ","o",
          "p","e","r","a","n","d"," ","t","y","p","e","(","s",")"," ","f",
          "o","r"," ","+",":"," ","'","i","n","t","'"," ","a","n","d"," ",
          "'","N","o","n","e","T","y","p","e","'">> ]

\* str(n) for a natural number
RECURSIVE FormatInt(_)
FormatInt(n) ==
    IF n < 10 THEN <<Digits[n + 1]>>
    ELSE FormatInt(n \div 10) \o <<Digits[(n % 10) + 1]>>

\* f"{(winning / total * 100):.1f}%": the percentage to the nearest tenth
\* (no percentage of fewer than sixteen trades lies halfway between tenths)
FormatWinRate(winning, total) ==
    LET tenths == (2000 * winning + total) \div (2 * total)
    IN  FormatInt(tenths \div 10) \o <<".">> \o FormatInt(tenths % 10) \o <<"%">>

\* what the chat completion call does: raises, or answers with a message
\* whose content is a text or None
ApiRaises(message) == [kind |-> "raise", error |-> message]

ApiAnswers(content) == [kind |-> "content", content |-> content]

\* lines 207-223: the message content, any failure wrapped in one Exception
_get_ai_response(api) ==
    IF api.kind = "raise" THEN Raised(Lit.ai_api_error \o api.error)
    ELSE api.content

\* lines 225-236
_parse_market_analysis(response, now) ==
    LET parsed == json_loads(response)
    IN  IF IsRaised(parsed)
        THEN PyDict(<<Item(Lit.sentiment, PyStr(Lit.Neutral)),
                      Item(Lit.analysis, response),
                      Item(Lit.timestamp, PyStr(now))>>)
        ELSE parsed

\* lines 238-249
_parse_trading_signal(response, symbol, now) ==
    LET parsed == json_loads(response)
    IN  IF IsRaised(parsed)
        THEN PyDict(<<Item(Lit.symbol, symbol),
                      Item(Lit.signal, PyStr(Lit.NEUTRAL)),
                      Item(Lit.confidence, PyInt(5)),
                      Item(Lit.analysis, response),
                      Item(Lit.timestamp, PyStr(now))>>)
        ELSE parsed

\* _parse_performance_analysis without its except clause
_parse_performance_analysis_uncaught(response, now) == json_loads(response)

\* lines 251-260
_parse_performance_analysis(response, now) ==
    LET parsed == json_loads(response)
    IN  IF IsRaised(parsed)
        THEN PyDict(<<Item(Lit.assessment, PyStr(Lit.analysis_completed)),
                      Item(Lit.details, response),
                      Item(Lit.timestamp, PyStr(now))>>)
        ELSE parsed

\* lines 262-271
_parse_risk_analysis(response, now) ==
    LET parsed == json_loads(response)
    IN  IF IsRaised(parsed)
        THEN PyDict(<<Item(Lit.approval, PyStr(Lit.MANUAL_REVIEW)),
                      Item(Lit.details, response),
                      Item(Lit.timestamp, PyStr(now))>>)
        ELSE parsed

\* a method's outcome: what it returns (or raises) and how many chat
\* completion calls it made
Outcome(value, calls) == [value |-> value, api_calls |-> calls]

\* lines 59-94
analyze_market_conditions(api, now) ==
    LET response == _get_ai_response(api)
    IN  IF IsRaised(response)
        THEN Outcome(PyDict(<<Item(Lit.error, PyStr(response.raised)),
                              Item(Lit.fallback_analysis,
                                   PyDict(<<Item(Lit.sentiment, PyStr(Lit.Neutral)),
                                            Item(Lit.recommendation, PyStr(Lit.monitor)),
                                            Item(Lit.risk_level, PyStr(Lit.Medium))>>))>>),
                     1)
        ELSE Outcome(_parse_market_analysis(response, now), 1)

\* lines 96-133
generate_trading_signals(symbol, api, now) ==
    LET response == _get_ai_response(api)
    IN  IF IsRaised(response)
        THEN Outcome(PyDict(<<Item(Lit.symbol, symbol),
                              Item(Lit.signal, PyStr(Lit.NEUTRAL)),
                              Item(Lit.confidence, PyInt(0)),
                              Item(Lit.error, PyStr(response.raised))>>),
                     1)
        ELSE Outcome(_parse_trading_signal(response, symbol, now), 1)

\* a trade is a dict whose 'pnl' is a number, None or missing and whose
\* other values json.dumps can or cannot write
Absent == [t |-> "absent"]

Trade(pnl, serializable) == [pnl |-> pnl, serializable |-> serializable]

\* trade.get('pnl', 0)
TradePnl(trade) == IF trade.pnl.t = "absent" THEN PyInt(0) ELSE trade.pnl

RECURSIVE SumPnl(_)
SumPnl(trades) ==
    IF trades = <<>> THEN 0 ELSE TradePnl(Head(trades)).n + SumPnl(Tail(trades))

Winning(trades) == Cardinality({i \in DOMAIN trades : TradePnl(trades[i]).n > 0})

\* sum() and the comparison with 0 raise TypeError on a pnl of None
PnlUsable(trades) == \A i \in DOMAIN trades : TradePnl(trades[i]).t = "int"

\* trades[-5:]
LastFive(trades) ==
    IF Len(trades) =< 5 THEN trades ELSE SubSeq(trades, Len(trades) - 4, Len(trades))

\* lines 273-285
_summarize_trades(trades) ==
    IF ~PnlUsable(trades) THEN Raised(Lit.bad_operand)
    ELSE [total_trades |-> Len(trades),
          total_pnl |-> SumPnl(trades),
          winning_trades |-> Winning(trades),
          win_rate |-> IF trades # <<>> THEN Frac(Winning(trades), Len(trades))
                       ELSE Frac(0, 1),
          avg_pnl_per_trade |-> IF trades # <<>> THEN Frac(SumPnl(trades), Len(trades))
                                ELSE Frac(0, 1),
          recent_trades |-> LastFive(trades)]

\* json.dumps(trades_summary) of line 147 succeeds
Dumpable(summary) ==
    \A i \in DOMAIN summary.recent_trades : summary.recent_trades[i].serializable

\* lines 287-300
_basic_trade_analysis(trades) ==
    IF trades = <<>> THEN PyDict(<<Item(Lit.message, PyStr(Lit.no_trades))>>)
    ELSE IF ~PnlUsable(trades) THEN Raised(Lit.bad_operand)
    ELSE PyDict(<<Item(Lit.total_trades, PyInt(Len(trades))),
                  Item(Lit.total_pnl, PyInt(SumPnl(trades))),
                  Item(Lit.win_rate, PyStr(FormatWinRate(Winning(trades), Len(trades)))),
                  Item(Lit.status, PyStr(IF SumPnl(trades) > 0 THEN Lit.Good
                                         ELSE Lit.needs_improvement))>>)

\* the except clause of lines 165-170: a failure of the fallback itself
\* leaves the method
PerformanceFallback(trades, message, calls) ==
    LET basic == _basic_trade_analysis(trades)
    IN  IF IsRaised(basic) THEN Outcome(basic, calls)
        ELSE Outcome(PyDict(<<Item(Lit.error, PyStr(message)),
                              Item(Lit.basic_analysis, basic)>>),
                     calls)

\* lines 135-170
analyze_trade_performance(trades, api, now) ==
    IF trades = <<>> THEN Outcome(PyDict(<<Item(Lit.message, PyStr(Lit.no_trades))>>), 0)
    ELSE
        LET summary == _summarize_trades(trades)
            response == _get_ai_response(api)
        IN  IF IsRaised(summary) THEN PerformanceFallback(trades, summary.raised, 0)
            ELSE IF ~Dumpable(summary)
                 THEN PerformanceFallback(trades, Lit.not_serializable, 0)
            ELSE IF IsRaised(response)
                 THEN PerformanceFallback(trades, response.raised, 1)
            ELSE Outcome(_parse_performance_analysis(response, now), 1)

\* lines 172-205: serializable says whether json.dumps can write
\* account_data and proposed_trade
risk_management_check(serializable, api, now) ==
    LET response == _get_ai_response(api)
        Rejected(message, calls) ==
            Outcome(PyDict(<<Item(Lit.approval, PyStr(Lit.REJECTED)),
                             Item(Lit.reason, PyStr(Lit.risk_analysis_error \o message)),
                             Item(Lit.recommendation,
                                  PyStr(Lit.manual_review_required))>>),
                    calls)
    IN  IF ~serializable THEN Rejected(Lit.not_serializable, 0)
        ELSE IF IsRaised(response) THEN Rejected(response.raised, 1)
        ELSE Outcome(_parse_risk_analysis(response, now), 1)

\* texts a chat completion can carry: JSON values of every kind, and texts
\* that are not JSON (prose, a truncated object, an object after a preamble,
\* trailing words)
ResponseTexts ==
    [ approved |-> <<"{","\"","a","p","p","r","o","v","a","l","\"",":"," ",
          "\"","A","P","P","R","O","V","E","D","\"","}">>,
      rejected |-> <<"{","\"","a","p","p","r","o","v","a","l","\"",":","\"",
          "R","E","J","E","C","T","E","D","\"",",","\"","r","e","a","s","o",
          "n","\"",":","\"","s","i","z","e","\"","}">>,
      spaced |-> <<" ","\n","{","\"","s","e","n","t","i","m","e","n","t",
          "\"",":"," ","\"","B","u","l","l","i","s","h","\"",","," ","\"",
          "c","o","n","f","i","d","e","n","c","e","\"",":"," ","7","}","\n">>,
      empty_object |-> <<"{","}">>,
      null |-> <<"n","u","l","l">>,
      number |-> <<"-","5">>,
      string |-> <<"\"","A","P","P","R","O","V","E","D","\"">>,
      boolean |-> <<"t","r","u","e">>,
      array |-> <<"[","1",","," ","\"","a","\"","]">>,
      nested |-> <<"{","\"","l","e","v","e","l","s","\"",":"," ","{","\"",
          "E","S","\"",":"," ","[","5","0","0","0",","," ","5","1","0","0",
          "]","}",","," ","\"","o","k","\"",":"," ","f","a","l","s","e","}">>,
      duplicate |-> <<"{","\"","a","p","p","r","o","v","a","l","\"",":"," ",
          "\"","A","P","P","R","O","V","E","D","\"",","," ","\"","a","p",
          "p","r","o","v","a","l","\"",":"," ","\"","R","E","J","E","C","T",
          "E","D","\"","}">>,
      empty |-> <<>>,
      prose |-> <<"A","P","P","R","O","V","E","D">>,
      truncated |-> <<"{","\"","a","p","p","r","o","v","a","l","\"",":"," ",
          "\"","A","P","P","R","O","V","E","D","\"">>,
      preamble |-> <<"R","e","s","u","l","t",":","\n","{","\"","a","p","p",
          "r","o","v","a","l","\"",":"," ","\"","A","P","P","R","O","V","E",
          "D","\"","}">>,
      trailing |-> <<"{","\"","a","p","p","r","o","v","a","l","\"",":"," ",
          "\"","A","P","P","R","O","V","E","D","\"","}"," ","T","r","a","d",
          "e"," ","a","p","p","r","o","v","e","d",".">>,
      single_quotes |-> <<"{","'","a","p","p","r","o","v","a","l","'",":",
          " ","'","A","P","P","R","O","V","E","D","'","}">>,
      bare_word |-> <<"{","\"","a","p","p","r","o","v","a","l","\"",":"," ",
          "A","P","P","R","O","V","E","D","}">>,
      trailing_comma |-> <<"{","\"","a","\"",":"," ","1",",","}">>,
      leading_zero |-> <<"0","1">>,
      newline_in_string |-> <<"\"","a","\n","b","\"">>,
      no_comma |-> <<"[","1"," ","2","]">>,
      no_colon |-> <<"{","\"","a","\""," ","1","}">> ]

\* message.content: each of the texts, or None
Contents == {PyStr(ResponseTexts[k]) : k \in DOMAIN ResponseTexts} \cup {PyNull}

\* the chat completion call times out, is refused, or answers
ApiOutcomes ==
    {ApiRaises(<<"t","i","m","e","o","u","t">>), ApiRaises(<<"4","0","1">>)}
        \cup {ApiAnswers(c) : c \in Contents}

\* datetime.now().isoformat() at the call
Clock == <<"2","0","2","5","-","0","1","-","0","2","T","0","9",":","3","0",":","0","0">>

MaxTrades == 2

TradeKinds ==
    {Trade(PyInt(50), TRUE), Trade(PyInt(0 - 20), TRUE), Trade(Absent, TRUE),
     Trade(PyNull, TRUE), Trade(PyInt(50), FALSE)}

TradeLists == UNION {[1..n -> TradeKinds] : n \in 0..MaxTrades}

AIInputs ==
    {[op |-> op, response |-> c]
        : op \in {"_parse_market_analysis", "_parse_trading_signal",
                  "_parse_performance_analysis", "_parse_risk_analysis"},
          c \in Contents}
    \cup {[op |-> op, api |-> a]
            : op \in {"analyze_market_conditions", "generate_trading_signals"},
              a \in ApiOutcomes}
    \cup {[op |-> "analyze_trade_performance", api |-> a, trades |-> t]
            : a \in ApiOutcomes, t \in TradeLists}
    \cup {[op |-> "risk_management_check", api |-> a, serializable |-> s]
            : a \in ApiOutcomes, s \in BOOLEAN}

InitAI == DirectCall(AIInputs)

\* the symbol generate_trading_signals is asked about
SymbolES == PyStr(<<"E","S">>)

Answer(outcome) ==
    /\ ~fn_ret.called
    /\ fn_ret' = [called |-> TRUE, value |-> outcome.value, api_calls |-> outcome.api_calls]
    /\ UNCHANGED <<session, topstep_token, world, analysis, fn_args, cycle,
                   session_state, session_token>>

CallParseMarketAnalysis ==
    /\ fn_args.op = "_parse_market_analysis"
    /\ Answer(Outcome(_parse_market_analysis(fn_args.response, Clock), 0))

CallParseTradingSignal ==
    /\ fn_args.op = "_parse_trading_signal"
    /\ Answer(Outcome(_parse_trading_signal(fn_args.response, SymbolES, Clock), 0))

CallParsePerformanceAnalysis ==
    /\ fn_args.op = "_parse_performance_analysis"
    /\ Answer(Outcome(_parse_performance_analysis(fn_args.response, Clock), 0))

CallParseRiskAnalysis ==
    /\ fn_args.op = "_parse_risk_analysis"
    /\ Answer(Outcome(_parse_risk_analysis(fn_args.response, Clock), 0))

CallAnalyzeMarketConditions ==
    /\ fn_args.op = "analyze_market_conditions"
    /\ Answer(analyze_market_conditions(fn_args.api, Clock))

CallGenerateTradingSignals ==
    /\ fn_args.op = "generate_trading_signals"
    /\ Answer(generate_trading_signals(SymbolES, fn_args.api, Clock))

CallAnalyzeTradePerformance ==
    /\ fn_args.op = "analyze_trade_performance"
    /\ Answer(analyze_trade_performance(fn_args.trades, fn_args.api, Clock))

CallRiskManagementCheck ==
    /\ fn_args.op = "risk_management_check"
    /\ Answer(risk_management_check(fn_args.serializable, fn_args.api, Clock))

NextAI ==
    \/ CallParseMarketAnalysis
    \/ CallParseTradingSignal
    \/ CallParsePerformanceAnalysis
    \/ CallParseRiskAnalysis
    \/ CallAnalyzeMarketConditions
    \/ CallGenerateTradingSignals
    \/ CallAnalyzeTradePerformance
    \/ CallRiskManagementCheck

SpecAI == InitAI /\ [][NextAI]_vars

(***************************************************************************)
(* The dashboard (src/app.py): st.session_state and the handlers that      *)
(* change it.  One action is one script run in which one widget fired.     *)
(* A price is an integer number of cents, an amount of money too; sums of  *)
(* floats are exact sums here.  world.clock is the reading of              *)
(* datetime.now(), one tick per script run.                                *)
(***************************************************************************)
\* list(TRADING_STRATEGIES.keys()) (lines 67-166)
StrategyKeys ==
    <<"AI_AUTONOMOUS", "MOMENTUM_BREAKOUT", "MEAN_REVERSION", "SCALPING_PREMIUM",
      "SWING_TRADING", "NEWS_MOMENTUM", "MANUAL_OVERRIDE">>

\* TRADING_STRATEGIES[key]['name']
StrategyName ==
    [AI_AUTONOMOUS     |-> "AI Autonomous Trading",
     MOMENTUM_BREAKOUT |-> "Momentum Breakout",
     MEAN_REVERSION    |-> "Mean Reversion",
     SCALPING_PREMIUM  |-> "Premium Scalping",
     SWING_TRADING     |-> "Swing Trading",
     NEWS_MOMENTUM     |-> "News Momentum",
     MANUAL_OVERRIDE   |-> "Manual Override"]

\* FOCUS_INSTRUMENTS[symbol]['point_value'] (lines 169-202), dollars per point
PointValue == [NQ |-> 20, ES |-> 50, CL |-> 1000, GC |-> 100]

AccountTypes == <<"50K_COMBINE", "100K_COMBINE", "150K_COMBINE">>

\* lines 395-412: the keys TopStepDashboard.__init__ sets on the first run
FreshSession ==
    [account_type      |-> "50K_COMBINE",
     positions         |-> <<>>,
     daily_pnl         |-> 0,
     total_pnl         |-> 0,
     alerts            |-> <<>>,
     trade_history     |-> <<>>,
     current_strategy  |-> "AI_AUTONOMOUS",
     strategy_override |-> FALSE,
     manual_signals    |-> <<>>]

\* the cap keeping the twenty oldest alerts
LastTwenty_oldest(alerts) ==
    IF Len(alerts) > 20 THEN SubSeq(alerts, 1, 20) ELSE alerts

\* alerts[-20:]
LastTwenty(alerts) ==
    IF Len(alerts) > 20 THEN SubSeq(alerts, Len(alerts) - 19, Len(alerts)) ELSE alerts

\* lines 417-425: st.session_state.alerts after add_alert(message, alert_type);
\* the 'time' entry is the same clock reading as 'timestamp', formatted
add_alert(alerts, message, alert_type, now) ==
    LastTwenty(Append(alerts, [message   |-> message,
                               type      |-> alert_type,
                               timestamp |-> now]))

\* a message with its f-string fields
Message(text, fields) == [text |-> text, fields |-> fields]

\* script runs followed in the strategy section, and in the trading interface
MaxStrategyRuns == 4

MaxTradingRuns == 6

\* one script run, of at most `runs`: the clock moves on
Tick(runs) ==
    /\ world.clock < runs
    /\ world' = [clock |-> world.clock + 1]

Alerted(message, alert_type) ==
    add_alert(session_state.alerts, message, alert_type, world.clock)

\* lines 503-512: the account selector shows another configuration
SwitchAccount(new_account_type) ==
    /\ new_account_type # session_state.account_type
    /\ Tick(MaxStrategyRuns)
    /\ session_state' =
        [session_state EXCEPT
            !.account_type = new_account_type,
            !.alerts = Alerted(Message("Switched to {new_account_type} configuration",
                                       [new_account_type |-> new_account_type]),
                               "info")]
    /\ UNCHANGED <<session, topstep_token, analysis, fn_args, fn_ret, cycle, session_token>>

\* the checkbox handler setting the flag and leaving the strategy as it is
ToggleOverride_flag_only(override_enabled) ==
    /\ override_enabled # session_state.strategy_override
    /\ Tick(MaxStrategyRuns)
    /\ session_state' =
        [session_state EXCEPT
            !.strategy_override = override_enabled,
            !.alerts = Alerted(Message("Manual override activated", <<>>), "warning")]
    /\ UNCHANGED <<session, topstep_token, analysis, fn_args, fn_ret, cycle, session_token>>

\* lines 670-684: the checkbox returns override_enabled
ToggleOverride(override_enabled) ==
    /\ override_enabled # session_state.strategy_override
    /\ Tick(MaxStrategyRuns)
    /\ session_state' =
        IF override_enabled
        THEN [session_state EXCEPT
                !.strategy_override = override_enabled,
                !.current_strategy = "MANUAL_OVERRIDE",
                !.alerts = Alerted(Message("Manual override activated", <<>>), "warning")]
        ELSE [session_state EXCEPT
                !.strategy_override = override_enabled,
                !.current_strategy = "AI_AUTONOMOUS",
                !.alerts = Alerted(Message(" Returned to AI autonomous trading", <<>>),
                                   "success")]
    /\ UNCHANGED <<session, topstep_token, analysis, fn_args, fn_ret, cycle, session_token>>

\* lines 687-692: the button shown while the override is on
ReturnToAI ==
    /\ session_state.strategy_override
    /\ Tick(MaxStrategyRuns)
    /\ session_state' =
        [session_state EXCEPT
            !.strategy_override = FALSE,
            !.current_strategy = "AI_AUTONOMOUS",
            !.alerts = Alerted(Message(" Returned to AI autonomous trading", <<>>),
                               "success")]
    /\ UNCHANGED <<session, topstep_token, analysis, fn_args, fn_ret, cycle, session_token>>

\* lines 732-740: the button of a strategy card, disabled on the active one
SelectStrategy(strategy_key) ==
    /\ strategy_key # session_state.current_strategy
    /\ Tick(MaxStrategyRuns)
    /\ session_state' =
        IF strategy_key = "MANUAL_OVERRIDE"
        THEN [session_state EXCEPT
                !.current_strategy = strategy_key,
                !.strategy_override = TRUE,
                !.alerts = Alerted(Message("Switched to {strategy['name']}",
                                           [name |-> StrategyName[strategy_key]]),
                                   "warning")]
        ELSE [session_state EXCEPT
                !.current_strategy = strategy_key,
                !.strategy_override = FALSE,
                !.alerts = Alerted(Message("Strategy changed to {strategy['name']}",
                                           [name |-> StrategyName[strategy_key]]),
                                   "info")]
    /\ UNCHANGED <<session, topstep_token, analysis, fn_args, fn_ret, cycle, session_token>>

\* lines 803-813: the form shown while the override is on
AddManualSignal(instrument, direction, strength) ==
    /\ session_state.strategy_override
    /\ Tick(MaxStrategyRuns)
    /\ session_state' =
        [session_state EXCEPT
            !.manual_signals = Append(@, [instrument |-> instrument,
                                          direction  |-> direction,
                                          strength   |-> strength,
                                          timestamp  |-> world.clock]),
            !.alerts = Alerted(Message(" Manual {signal_direction} signal added for {signal_instrument}",
                                       [signal_direction  |-> direction,
                                        signal_instrument |-> instrument]),
                               "info")]
    /\ UNCHANGED <<session, topstep_token, analysis, fn_args, fn_ret, cycle, session_token>>

InitDashboard ==
    /\ Constructed
    /\ world = [clock |-> 0]
    /\ fn_args = NoCall
    /\ fn_ret = NotCalled
    /\ cycle = Idle
    /\ session_state = FreshSession
    /\ session_token = NoToken

NextStrategy ==
    \/ \E a \in {AccountTypes[i] : i \in DOMAIN AccountTypes} : SwitchAccount(a)
    \/ \E b \in BOOLEAN : ToggleOverride(b)
    \/ ReturnToAI
    \/ \E k \in {StrategyKeys[i] : i \in DOMAIN StrategyKeys} : SelectStrategy(k)
    \/ AddManualSignal("NQ", "BULLISH", "STRONG")

SpecStrategy == InitDashboard /\ [][NextStrategy]_vars

\* lines 864-865: the mock prices, in cents
BasePrice == [NQ |-> 1685025, ES |-> 420550, CL |-> 7845, GC |-> 202530]

\* f"POS_{n}"
PositionId(n) == <<"P","O","S","_">> \o FormatInt(n)

\* the Execute Demo Trade button numbering positions by the trades made so far
ExecuteTrade_numbering_trades(symbol, side, quantity, price) ==
    /\ Tick(MaxTradingRuns)
    /\ session_state' =
        [session_state EXCEPT
            !.positions =
                Append(@, [id             |-> PositionId(Len(session_state.trade_history) + 1),
                           symbol         |-> symbol,
                           quantity       |-> IF side = "BUY" THEN quantity ELSE 0 - quantity,
                           entry_price    |-> price,
                           current_price  |-> price,
                           unrealized_pnl |-> 0,
                           side           |-> side,
                           timestamp      |-> world.clock]),
            !.trade_history =
                Append(@, [time     |-> world.clock,
                           symbol   |-> symbol,
                           side     |-> side,
                           quantity |-> quantity,
                           price    |-> price,
                           status   |-> "FILLED"]),
            !.alerts = Alerted(Message("{side} {quantity} {symbol} @ ${price:.2f}",
                                       [side |-> side, quantity |-> quantity,
                                        symbol |-> symbol, price |-> price]),
                               "success")]
    /\ UNCHANGED <<session, topstep_token, analysis, fn_args, fn_ret, cycle, session_token>>

\* lines 872-893: the Execute Demo Trade button
ExecuteTrade(symbol, side, quantity, price) ==
    /\ Tick(MaxTradingRuns)
    /\ session_state' =
        [session_state EXCEPT
            !.positions =
                Append(@, [id             |-> PositionId(Len(session_state.positions) + 1),
                           symbol         |-> symbol,
                           quantity       |-> IF side = "BUY" THEN quantity ELSE 0 - quantity,
                           entry_price    |-> price,
                           current_price  |-> price,
                           unrealized_pnl |-> 0,
                           side           |-> side,
                           timestamp      |-> world.clock]),
            !.trade_history =
                Append(@, [time     |-> world.clock,
                           symbol   |-> symbol,
                           side     |-> side,
                           quantity |-> quantity,
                           price    |-> price,
                           status   |-> "FILLED"]),
            !.alerts = Alerted(Message("{side} {quantity} {symbol} @ ${price:.2f}",
                                       [side |-> side, quantity |-> quantity,
                                        symbol |-> symbol, price |-> price]),
                               "success")]
    /\ UNCHANGED <<session, topstep_token, analysis, fn_args, fn_ret, cycle, session_token>>

\* lines 434-445: one position after its price moved by price_change
Repriced(pos, price_change) ==
    LET current_price == pos.current_price + price_change
        point_value == PointValue[pos.symbol]
    IN  [pos EXCEPT
            !.current_price = current_price,
            !.unrealized_pnl =
                IF pos.quantity > 0
                THEN (current_price - pos.entry_price) * pos.quantity * point_value
                ELSE (pos.entry_price - current_price) * Abs(pos.quantity) * point_value]

\* lines 448-465: the metrics of the account (those entries that come from
\* the session state alone)
Metrics(state) ==
    LET pnl == [i \in DOMAIN state.positions |-> state.positions[i].unrealized_pnl]
        unrealized_pnl == SumOver(pnl, DOMAIN pnl)
    IN  [total_pnl      |-> state.total_pnl + unrealized_pnl,
         daily_pnl      |-> state.daily_pnl + unrealized_pnl,
         unrealized_pnl |-> unrealized_pnl,
         position_count |-> Len(state.positions),
         trade_count    |-> Len(state.trade_history)]

\* lines 427-466: get_real_time_data, price_changes[i] being the simulated
\* move of position i
GetRealTimeData(price_changes) ==
    /\ Tick(MaxTradingRuns)
    /\ session_state' =
        [session_state EXCEPT
            !.positions = [i \in DOMAIN @ |-> Repriced(@[i], price_changes[i])]]
    /\ fn_ret' = Returned(Metrics(session_state'))
    /\ UNCHANGED <<session, topstep_token, analysis, fn_args, cycle, session_token>>

\* positions.pop(i), i counted from 1
Pop(positions, i) ==
    SubSeq(positions, 1, i - 1) \o SubSeq(positions, i + 1, Len(positions))

\* the Close button adding the position's P&L to total_pnl only
ClosePosition_total_only(i) ==
    /\ i \in DOMAIN session_state.positions
    /\ Tick(MaxTradingRuns)
    /\ session_state' =
        [session_state EXCEPT
            !.total_pnl = @ + session_state.positions[i].unrealized_pnl,
            !.positions = Pop(@, i)]
    /\ UNCHANGED <<session, topstep_token, analysis, fn_args, fn_ret, cycle, session_token>>

\* lines 977-981: the Close button of position i
ClosePosition(i) ==
    /\ i \in DOMAIN session_state.positions
    /\ Tick(MaxTradingRuns)
    /\ session_state' =
        [session_state EXCEPT
            !.daily_pnl = @ + session_state.positions[i].unrealized_pnl,
            !.total_pnl = @ + session_state.positions[i].unrealized_pnl,
            !.positions = Pop(@, i)]
    /\ UNCHANGED <<session, topstep_token, analysis, fn_args, fn_ret, cycle, session_token>>

\* the orders placed: a long and a short, on instruments of different point
\* value, at the mock price
Orders ==
    {[symbol |-> "NQ", side |-> "BUY", quantity |-> 1, price |-> BasePrice.NQ],
     [symbol |-> "CL", side |-> "SELL", quantity |-> 2, price |-> BasePrice.CL]}

\* the simulated moves of a price, in cents
PriceChanges == {0 - 50, 25}

NextTrading ==
    \/ \E o \in Orders : ExecuteTrade(o.symbol, o.side, o.quantity, o.price)
    \/ \E c \in [DOMAIN session_state.positions -> PriceChanges] : GetRealTimeData(c)
    \/ \E i \in DOMAIN session_state.positions : ClosePosition(i)

SpecTrading == InitDashboard /\ [][NextTrading]_vars

\* ---- add_alert(message, alert_type), called again and again ----
MaxAlertsAdded == 23

AlertKinds ==
    <<[message |-> Message("Manual override activated", <<>>), type |-> "warning"],
      [message |-> Message(" Returned to AI autonomous trading", <<>>), type |-> "success"],
      [message |-> Message("Switched to {new_account_type} configuration",
                           [new_account_type |-> "100K_COMBINE"]),
       type |-> "info"]>>

\* the calls to come: the kinds in turn, over the first `period` kinds and
\* starting at any of them
AlertPlans ==
    {[i \in 1..MaxAlertsAdded |-> AlertKinds[((i + offset) % period) + 1]] :
        period \in 1..Len(AlertKinds), offset \in 0..(Len(AlertKinds) - 1)}

InitAddAlert ==
    /\ Constructed
    /\ world = [clock |-> 0]
    /\ fn_args \in {[op |-> "add_alert", calls |-> plan] : plan \in AlertPlans}
    /\ fn_ret = NotCalled
    /\ cycle = Idle
    /\ session_state = FreshSession
    /\ session_token = NoToken

\* the next call of the plan; world.clock counts the calls made
CallAddAlert ==
    /\ world.clock < Len(fn_args.calls)
    /\ LET call == fn_args.calls[world.clock + 1]
       IN  session_state' =
            [session_state EXCEPT
                !.alerts = add_alert(@, call.message, call.type, world.clock)]
    /\ world' = [clock |-> world.clock + 1]
    /\ UNCHANGED <<session, topstep_token, analysis, fn_args, fn_ret, cycle, session_token>>

SpecAddAlert == InitAddAlert /\ [][CallAddAlert]_vars

(***************************************************************************)
(* TopStepAPI (src/topstep_api_integration.py).  world.auth is what the    *)
(* login endpoint does with the next request; a JSON object is a record of *)
(* tagged Python values, an absent key being a field the record lacks.     *)
(***************************************************************************)
\* bool(value)
Truthy(value) ==
    CASE value.t = "bool" -> value.b
      [] value.t = "int" -> value.n # 0
      [] value.t = "str" -> value.chars # <<>>
      [] value.t = "null" -> FALSE
      [] OTHER -> TRUE

\* value == 0 (True for 0 and for False)
EqualsZero(value) ==
    CASE value.t = "int" -> value.n = 0
      [] value.t = "bool" -> ~value.b
      [] OTHER -> FALSE

\* data.get(key)
Field(data, key) == IF key \in DOMAIN data THEN data[key] ELSE PyNull

\* requests.post raises, the server answers with a status and a body that is
\* no JSON, a JSON value that is no object, or a JSON object
PostRaises == [kind |-> "raise"]

HttpAnswer(status, body) == [kind |-> "http", status |-> status, body |-> body]

NotJson == [json |-> "invalid"]

JsonArray == [json |-> "array"]

JsonObject(data) == [json |-> "object", data |-> data]

\* authenticate assigning the token field of every 200 answer that is a JSON
\* object, accepted or not
authenticate_assigns_on_200(token, response) ==
    IF response.kind = "raise" THEN [ret |-> FALSE, session_token |-> token]
    ELSE IF response.status = 200 /\ response.body.json = "object"
    THEN LET data == response.body.data
         IN  [ret |-> Truthy(Field(data, "success")) /\ EqualsZero(Field(data, "errorCode")),
              session_token |-> Field(data, "token")]
    ELSE [ret |-> FALSE, session_token |-> token]

\* lines 22-54: the value returned and self.session_token afterwards
authenticate(token, response) ==
    IF response.kind = "raise" THEN [ret |-> FALSE, session_token |-> token]
    ELSE IF response.status = 200
    THEN IF response.body.json # "object"
         THEN [ret |-> FALSE, session_token |-> token]     \* .json() or .get raises
         ELSE LET data == response.body.data
              IN  IF Truthy(Field(data, "success")) /\ EqualsZero(Field(data, "errorCode"))
                  THEN [ret |-> TRUE, session_token |-> Field(data, "token")]
                  ELSE [ret |-> FALSE, session_token |-> token]
    ELSE [ret |-> FALSE, session_token |-> token]

\* the mock answers of lines 70-79 and 93-102
MockAccount ==
    [account_id |-> "TS001", account_type |-> "50K_COMBINE", balance |-> 5000000,
     daily_pnl |-> 0, total_pnl |-> 0, profit_target |-> 300000,
     daily_loss_limit |-> 200000, status |-> "active"]

MockPositions ==
    PyList(<<[symbol |-> "NQ", quantity |-> 2, entry_price |-> 1545025,
              current_price |-> 1548575, pnl |-> 142000]>>)

\* lines 56-60 and 86-90: authenticate unless a token is held; `mock` is what
\* the method returns once past the guard
Guarded(token, response, mock) ==
    IF ~Truthy(token)
    THEN LET login == authenticate(token, response)
         IN  [value         |-> IF login.ret THEN mock ELSE None,
              session_token |-> login.session_token,
              auth_calls    |-> 1]
    ELSE [value |-> mock, session_token |-> token, auth_calls |-> 0]

\* lines 56-84
get_account_info(token, response) == Guarded(token, response, MockAccount)

\* lines 86-106
get_positions(token, response) == Guarded(token, response, MockPositions)

\* answers of the login endpoint
LoginBodies ==
    {JsonObject(d) : d \in
        {[success |-> s, errorCode |-> e, token |-> k] :
            s \in {PyBool(TRUE), PyBool(FALSE)},
            e \in {PyInt(0), PyInt(3)},
            k \in {PyStr(<<"t","1">>), PyStr(<<"t","2">>), PyNull}}
        \cup {[errorCode |-> PyInt(0), token |-> PyStr(<<"t","1">>)],
              [success |-> PyBool(TRUE), token |-> PyStr(<<"t","1">>)],
              [success |-> PyBool(TRUE), errorCode |-> PyInt(0)],
              [success |-> PyStr(<<"o","k">>), errorCode |-> PyBool(FALSE),
               token |-> PyStr(<<>>)]}}

LoginResponses ==
    {PostRaises, HttpAnswer(401, NotJson), HttpAnswer(200, NotJson),
     HttpAnswer(200, JsonArray)}
        \cup {HttpAnswer(200, b) : b \in LoginBodies}
        \cup {HttpAnswer(500, JsonObject([success |-> PyBool(TRUE), errorCode |-> PyInt(0),
                                          token |-> PyStr(<<"t","1">>)]))}

InitTopStepAPI ==
    /\ Constructed
    /\ world \in {[auth |-> r] : r \in LoginResponses}
    /\ fn_args = NoCall
    /\ fn_ret = NotCalled
    /\ cycle = Idle
    /\ session_state = NotStarted
    /\ session_token = NoToken

\* between two calls the endpoint may come to answer differently
ServerChanges ==
    /\ world' \in {[auth |-> r] : r \in LoginResponses}
    /\ UNCHANGED <<session, topstep_token, analysis, fn_args, fn_ret, cycle, session_state,
                   session_token>>

CallAuthenticate ==
    /\ LET login == authenticate(session_token, world.auth)
       IN  /\ session_token' = login.session_token
           /\ fn_ret' = [called |-> TRUE, op |-> "authenticate", value |-> login.ret,
                         auth_calls |-> 1]
    /\ UNCHANGED <<session, topstep_token, world, analysis, fn_args, cycle, session_state>>

CallGetAccountInfo ==
    /\ LET r == get_account_info(session_token, world.auth)
       IN  /\ session_token' = r.session_token
           /\ fn_ret' = [called |-> TRUE, op |-> "get_account_info", value |-> r.value,
                         auth_calls |-> r.auth_calls]
    /\ UNCHANGED <<session, topstep_token, world, analysis, fn_args, cycle, session_state>>

CallGetPositions ==
    /\ LET r == get_positions(session_token, world.auth)
       IN  /\ session_token' = r.session_token
           /\ fn_ret' = [called |-> TRUE, op |-> "get_positions", value |-> r.value,
                         auth_calls |-> r.auth_calls]
    /\ UNCHANGED <<session, topstep_token, world, analysis, fn_args, cycle, session_state>>

NextTopStepAPI ==
    ServerChanges \/ CallAuthenticate \/ CallGetAccountInfo \/ CallGetPositions

SpecTopStepAPI == InitTopStepAPI /\ [][NextTopStepAPI]_vars

(***************************************************************************)
(* Properties                                                              *)
(***************************************************************************)
\* the statements' own vocabulary, independent of the operators above
Exceeds(score, tenths) == 10 * score.num > tenths * score.den

InUnitInterval(score) == score.den > 0 /\ 0 =< score.num /\ score.num =< score.den

EqualsTenths(score, tenths) == 10 * score.num = tenths * score.den

ScoreOfItem(item) ==
    IF "manipulation_score" \in DOMAIN item THEN item["manipulation_score"] ELSE Frac(0, 1)

HasHighItem(news) == \E i \in DOMAIN news : Exceeds(ScoreOfItem(news[i]), 6)

HasBatch(market_data) ==
    /\ "data" \in DOMAIN market_data
    /\ DOMAIN market_data["data"] # {}

PctOf(quote) == IF "change_percent" \in DOMAIN quote THEN quote["change_percent"] ELSE 0

SumAbsPct(data) == SumOver([k \in DOMAIN data |-> Abs(PctOf(data[k]))], DOMAIN data)

\* mean of |percent change| > 1.0, resp. = 1.0
MeanAbove1(data) == SumAbsPct(data) > 100 * Cardinality(DOMAIN data)

MeanIs1(data) == SumAbsPct(data) = 100 * Cardinality(DOMAIN data)

Classified(pct) ==
    CASE pct > 50  -> "BULLISH"
      [] pct < -50 -> "BEARISH"
      [] OTHER     -> "NEUTRAL"

CalledRec == fn_args.op = "create_trading_recommendations" /\ fn_ret.called

CalledSummary == fn_args.op = "create_market_summary" /\ fn_ret.called

CalledAlerts == fn_args.op = "create_manipulation_alerts" /\ fn_ret.called

CalledDetect == fn_args.op = "detect_manipulation" /\ fn_ret.called

Analysed == analysis # NoAnalysis

\* C1: for a non-empty quote batch, a news batch with at least one item that
\* yields a HIGH alert (score > 0.6) makes create_trading_recommendations return
\* CAUTION with confidence 0.3, whatever the average strength is.
C1_HighAlertForcesCaution ==
    (CalledRec /\ HasBatch(fn_args.market_data) /\ HasHighItem(fn_args.news_data))
        => /\ fn_ret.value.recommendation = "CAUTION"
           /\ EqualsTenths(fn_ret.value.confidence, 3)

\* C1 witness: a HIGH item together with a mean strength above 1.0.
C1_Witness ==
    /\ CalledRec
    /\ HasBatch(fn_args.market_data)
    /\ HasHighItem(fn_args.news_data)
    /\ MeanAbove1(fn_args.market_data["data"])
    /\ fn_ret.value.recommendation = "CAUTION"

\* C2: whatever the fetches answer, the result of
\* get_comprehensive_market_analysis is no error payload and holds a
\* recommendation whose action is CAUTION, ACTIVE, MONITOR or HOLD.
C2_AlwaysOneOfFourActions ==
    Analysed
        => /\ "error" \notin DOMAIN analysis
           /\ "trading_recommendations" \in DOMAIN analysis
           /\ analysis.trading_recommendations.recommendation
                \in {"CAUTION", "ACTIVE", "MONITOR", "HOLD"}

\* C2 witness: every source is down (the quote fetcher fell back to {}, every
\* feed raised, the gateway is unreachable) and the cycle still ended in HOLD.
C2_Witness ==
    /\ Analysed
    /\ world.yahoo.fatal
    /\ \A i \in DOMAIN news_sources : world.feeds[i].kind = "raise"
    /\ world.gateway = GatewayDown
    /\ analysis.trading_recommendations.recommendation = "HOLD"

\* C3: with an empty or absent quote batch create_trading_recommendations
\* returns HOLD, reason "Insufficient market data", and no confidence,
\* whatever the news batch holds.
C3_EmptyBatchHolds ==
    (CalledRec /\ ~HasBatch(fn_args.market_data))
        => /\ fn_ret.value.recommendation = "HOLD"
           /\ fn_ret.value.reason.text = "Insufficient market data"
           /\ "confidence" \notin DOMAIN fn_ret.value

\* C3 witness: the fetcher's {} with a HIGH item in the news.
C3_Witness ==
    /\ CalledRec
    /\ fn_args.market_data = <<>>
    /\ HasHighItem(fn_args.news_data)
    /\ fn_ret.value.recommendation = "HOLD"

\* C4: without quote data create_market_summary returns the no-data status and
\* no overall_sentiment; with a non-empty batch it returns an overall_sentiment
\* among BULLISH, BEARISH and NEUTRAL.
C4_NoDataStatus ==
    CalledSummary
        => IF HasBatch(fn_args.market_data)
           THEN /\ "overall_sentiment" \in DOMAIN fn_ret.value
                /\ fn_ret.value.overall_sentiment \in {"BULLISH", "BEARISH", "NEUTRAL"}
           ELSE /\ "status" \in DOMAIN fn_ret.value
                /\ fn_ret.value.status = "No market data available"
                /\ "overall_sentiment" \notin DOMAIN fn_ret.value

\* C4 witness: a tagged batch whose data mapping is empty got the status.
C4_Witness ==
    /\ CalledSummary
    /\ "data" \in DOMAIN fn_args.market_data
    /\ DOMAIN fn_args.market_data["data"] = {}
    /\ DOMAIN fn_ret.value = {"status"}

\* C5: every instrument of the batch is classified BULLISH iff its percent
\* change is above 0.5, BEARISH iff below -0.5, NEUTRAL otherwise; a quote
\* without change_percent counts as 0.
C5_InstrumentSentiment ==
    (CalledSummary /\ HasBatch(fn_args.market_data))
        => LET data == fn_args.market_data["data"]
               instr == fn_ret.value.instruments
           IN  /\ DOMAIN instr = DOMAIN data
               /\ \A k \in DOMAIN data :
                    /\ instr[k].sentiment = Classified(PctOf(data[k]))
                    /\ instr[k].change_percent = PctOf(data[k])

\* C5 witness: a batch with both boundary values and a quote without the field,
\* all three NEUTRAL.
C5_Witness ==
    /\ CalledSummary
    /\ HasBatch(fn_args.market_data)
    /\ LET data == fn_args.market_data["data"]
           instr == fn_ret.value.instruments
       IN  /\ \E k \in DOMAIN data : PctOf(data[k]) = 50 /\ instr[k].sentiment = "NEUTRAL"
           /\ \E k \in DOMAIN data : PctOf(data[k]) = -50 /\ instr[k].sentiment = "NEUTRAL"
           /\ \E k \in DOMAIN data :
                "change_percent" \notin DOMAIN data[k] /\ instr[k].sentiment = "NEUTRAL"

\* C6: with b instruments classified BULLISH out of t > 0, the overall
\* sentiment is BULLISH iff b/t > 0.6, BEARISH iff b/t < 0.4, NEUTRAL otherwise.
C6_OverallSentiment ==
    (CalledSummary /\ HasBatch(fn_args.market_data))
        => LET instr == fn_ret.value.instruments
               b == Cardinality({k \in DOMAIN instr : instr[k].sentiment = "BULLISH"})
               t == Cardinality(DOMAIN fn_args.market_data["data"])
           IN  fn_ret.value.overall_sentiment
                = CASE 10 * b > 6 * t -> "BULLISH"
                    [] 10 * b < 4 * t -> "BEARISH"
                    [] OTHER          -> "NEUTRAL"

\* C6 witness: 2 of 5 bullish (ratio exactly 0.4) reported NEUTRAL.
C6_Witness ==
    /\ CalledSummary
    /\ HasBatch(fn_args.market_data)
    /\ LET data == fn_args.market_data["data"]
       IN  /\ Cardinality(DOMAIN data) = 5
           /\ Cardinality({k \in DOMAIN data : PctOf(data[k]) > 50}) = 2
    /\ fn_ret.value.overall_sentiment = "NEUTRAL"

\* C7: with a non-empty batch and no item that yields a HIGH alert, the result
\* is ACTIVE with confidence 0.8 iff the mean of |percent change| is above 1.0,
\* and MONITOR with confidence 0.6 otherwise.
C7_ActiveIffStrong ==
    (CalledRec /\ HasBatch(fn_args.market_data) /\ ~HasHighItem(fn_args.news_data))
        => IF MeanAbove1(fn_args.market_data["data"])
           THEN /\ fn_ret.value.recommendation = "ACTIVE"
                /\ EqualsTenths(fn_ret.value.confidence, 8)
           ELSE /\ fn_ret.value.recommendation = "MONITOR"
                /\ EqualsTenths(fn_ret.value.confidence, 6)

\* C7 witness: a mean of exactly 1.0 and a MEDIUM item give MONITOR.
C7_Witness ==
    /\ CalledRec
    /\ HasBatch(fn_args.market_data)
    /\ MeanIs1(fn_args.market_data["data"])
    /\ ~HasHighItem(fn_args.news_data)
    /\ \E i \in DOMAIN fn_args.news_data : Exceeds(ScoreOfItem(fn_args.news_data[i]), 3)
    /\ fn_ret.value.recommendation = "MONITOR"

\* C8: the alerts are, in order, one per news item whose manipulation score
\* exceeds 0.3; each is HIGH iff the score exceeds 0.6, MEDIUM otherwise, and
\* carries the item's title and both scores.
C8_AlertsMatchItems ==
    CalledAlerts
        => LET news == fn_args.news_data
               alerts == fn_ret.value
               scored == {i \in DOMAIN news : Exceeds(ScoreOfItem(news[i]), 3)}
           IN  /\ Len(alerts) = Cardinality(scored)
               /\ \A i \in scored :
                    LET a == alerts[Cardinality({j \in scored : j =< i})]
                    IN  /\ a.title = news[i].title
                        /\ a.manipulation_score = news[i].manipulation_score
                        /\ a.reliability_score = news[i].reliability_score
                        /\ a.level = IF Exceeds(news[i].manipulation_score, 6)
                                     THEN "HIGH" ELSE "MEDIUM"

\* C8 witness: an item at exactly 0.3 gives no alert, the next one at exactly
\* 0.6 gives the only alert, MEDIUM.
C8_Witness ==
    /\ CalledAlerts
    /\ Len(fn_args.news_data) = 2
    /\ ScoreOfItem(fn_args.news_data[1]) = Frac(3, 10)
    /\ ScoreOfItem(fn_args.news_data[2]) = Frac(6, 10)
    /\ Len(fn_ret.value) = 1
    /\ fn_ret.value[1].level = "MEDIUM"
    /\ fn_ret.value[1].title = fn_args.news_data[2].title

\* the same letter, whatever the case
SameLetter(a, b) ==
    \/ a = b
    \/ \E i \in DOMAIN UpperLetters :
        {a, b} = {UpperLetters[i], LowerLetters[i]}

OccursIgnoringCase(text, keyword) ==
    \E i \in 0..(Len(text) - Len(keyword)) :
        \A j \in DOMAIN keyword : SameLetter(text[i + j], keyword[j])

Matched(text) ==
    Cardinality({k \in DOMAIN manipulation_keywords :
                    OccursIgnoringCase(text, manipulation_keywords[k])})
    + (IF /\ \E i \in DOMAIN text : IsUpperChar(text[i])
          /\ ~\E i \in DOMAIN text : IsLowerChar(text[i])
       THEN 1 ELSE 0)
    + (IF \/ Cardinality({i \in DOMAIN text : text[i] = "!"}) > 2
          \/ Cardinality({i \in DOMAIN text : text[i] = "?"}) > 2
       THEN 1 ELSE 0)

\* C9: detect_manipulation returns matched/12, matched being the number of
\* keywords occurring whatever their case, plus one for a fully upper-case
\* text, plus one for more than two '!' or more than two '?'; a text without
\* upper-case letters, without keyword and with at most two of each mark
\* scores 0.
C9_ScoreIsMatchedOver12 ==
    CalledDetect
        => /\ fn_ret.value = Frac(Matched(fn_args.text), 12)
           /\ (/\ \A i \in DOMAIN fn_args.text : ~IsUpperChar(fn_args.text[i])
               /\ \A k \in DOMAIN manipulation_keywords :
                    ~OccursIgnoringCase(fn_args.text, manipulation_keywords[k])
               /\ Cardinality({i \in DOMAIN fn_args.text : fn_args.text[i] = "!"}) =< 2
               /\ Cardinality({i \in DOMAIN fn_args.text : fn_args.text[i] = "?"}) =< 2)
              => fn_ret.value.num = 0

\* C9 witness: "Crash !!!" (a capitalised keyword in a mixed-case text, three
\* exclamation marks) scores 2/12.
C9_Witness ==
    /\ CalledDetect
    /\ fn_args.text = <<"C","r","a","s","h"," ","!","!","!">>
    /\ fn_ret.value = Frac(2, 12)

\* C10: in every analysis every manipulation score and reliability score (news
\* items, alerts, the yahoo and topstep tags) and the confidence, when there is
\* one, lie in [0, 1].
C10_ScoresInUnitInterval ==
    (Analysed /\ "sources" \in DOMAIN analysis)
        => LET news == analysis.sources.news
               alerts == analysis.manipulation_alerts
               yahoo == analysis.sources.yahoo
               topstep == analysis.sources.topstep
               rec == analysis.trading_recommendations
           IN  /\ \A i \in DOMAIN news :
                    /\ InUnitInterval(news[i].manipulation_score)
                    /\ InUnitInterval(news[i].reliability_score)
               /\ \A i \in DOMAIN alerts :
                    /\ InUnitInterval(alerts[i].manipulation_score)
                    /\ InUnitInterval(alerts[i].reliability_score)
               /\ "reliability_score" \in DOMAIN yahoo
                    => InUnitInterval(yahoo.reliability_score)
               /\ "reliability_score" \in DOMAIN topstep
                    => InUnitInterval(topstep.reliability_score)
               /\ "confidence" \in DOMAIN rec => InUnitInterval(rec.confidence)

\* C10 witness: an analysis with the broker's snapshot (reliability 1.0), the
\* yahoo tag, a HIGH alert of score 11/12 and a confidence.
C10_Witness ==
    /\ Analysed
    /\ "sources" \in DOMAIN analysis
    /\ "reliability_score" \in DOMAIN analysis.sources.topstep
    /\ "reliability_score" \in DOMAIN analysis.sources.yahoo
    /\ \E i \in DOMAIN analysis.manipulation_alerts :
        analysis.manipulation_alerts[i].manipulation_score = Frac(11, 12)
    /\ "confidence" \in DOMAIN analysis.trading_recommendations

CalledReliability == fn_args.op = "calculate_source_reliability" /\ fn_ret.called

\* d occurs in text as a run of consecutive characters
HasInfix(text, d) ==
    \E a \in 0..Len(text) : \E b \in a..Len(text) : SubSeq(text, a + 1, b) = d

NamesTrustedDomain(text) ==
    \E k \in DOMAIN trusted_sources : HasInfix(text, trusted_sources[k])

\* C11: calculate_source_reliability returns 0.9 for a source string that
\* contains at least one of the trusted domains as a substring and 0.6 for
\* every other source string; it returns no other value.
C11_ReliabilityTwoTier ==
    CalledReliability
        => IF NamesTrustedDomain(fn_args.source)
           THEN EqualsTenths(fn_ret.value, 9)
           ELSE EqualsTenths(fn_ret.value, 6)

\* C11 witness: a trusted domain other than the first of the table, inside a
\* longer string, scored 0.9.
C11_Witness ==
    /\ CalledReliability
    /\ ~HasInfix(fn_args.source, trusted_sources[1])
    /\ HasInfix(fn_args.source, trusted_sources[3])
    /\ Len(fn_args.source) > Len(trusted_sources[3])
    /\ EqualsTenths(fn_ret.value, 9)

CalledNews == fn_args.op = "get_market_news" /\ fn_ret.called

\* a >= b for two scores
AtLeast(a, b) == a.num * b.den >= b.num * a.den

SameScore(a, b) == a.num * b.den = b.num * a.den

\* the place of item in the sequence s
PlaceIn(s, item) == CHOOSE p \in DOMAIN s : s[p] = item

\* all_news as the harvester appended it, before the sort (lines 238-266)
Appended == Harvest(fn_args.feeds, 1)

\* C12: the list get_market_news returns holds the appended items ordered by
\* non-increasing reliability score, and two items of equal reliability keep
\* the relative order in which the harvester appended them.
C12_SortedStable ==
    CalledNews
        => LET out == fn_ret.value
               all_news == Appended
           IN  /\ Len(out) = Len(all_news)
               /\ \A k \in DOMAIN all_news : \E p \in DOMAIN out : out[p] = all_news[k]
               /\ \A p, q \in DOMAIN out :
                    p < q => AtLeast(out[p]["reliability_score"], out[q]["reliability_score"])
               /\ \A a, b \in DOMAIN all_news :
                    (a < b /\ SameScore(all_news[a]["reliability_score"],
                                        all_news[b]["reliability_score"]))
                        => PlaceIn(out, all_news[a]) < PlaceIn(out, all_news[b])

\* C12 witness: items of the first feed (0.6) were appended before items of
\* the two trusted feeds (0.9, tied) and come after them in the result.
C12_Witness ==
    /\ CalledNews
    /\ \A i \in DOMAIN news_sources :
          fn_args.feeds[i].kind = "parsed" /\ Len(fn_args.feeds[i].entries) >= 2
    /\ Appended[1].source = news_sources[1]
    /\ fn_ret.value[1].source = news_sources[2]
    /\ fn_ret.value[Len(fn_ret.value)].source = news_sources[1]
    /\ \E p \in DOMAIN fn_ret.value :
          /\ p < Len(fn_ret.value)
          /\ fn_ret.value[p].source = news_sources[2]
          /\ fn_ret.value[p + 1].source = news_sources[3]

CalledYahoo == fn_args.op = "get_market_data_yahoo" /\ fn_ret.called

\* the fetch of symbol i fails: the ticker raises or its history is empty
FetchFails(yahoo, i) ==
    \/ yahoo.quotes[i].kind = "raise"
    \/ yahoo.quotes[i].closes = <<>>

\* the symbol without its "=F" suffix
Bare(symbol) == SubSeq(symbol, 1, Len(symbol) - 2)

\* C13: in get_market_data_yahoo a fetch failure (exception or empty history)
\* of a symbol omits that symbol only: every symbol of the instrument list is
\* requested, in list order, and the returned mapping holds exactly the
\* symbols whose fetch succeeded, each with its last close, for every subset
\* of failing symbols.
C13_FailureOmitsOnlyThatSymbol ==
    (CalledYahoo /\ ~fn_args.yahoo.fatal)
        => /\ fn_ret.tickers = instruments
           /\ "data" \in DOMAIN fn_ret.value
           /\ \A i \in DOMAIN instruments :
                IF FetchFails(fn_args.yahoo, i)
                THEN Bare(instruments[i]) \notin DOMAIN fn_ret.value["data"]
                ELSE /\ Bare(instruments[i]) \in DOMAIN fn_ret.value["data"]
                     /\ LET closes == fn_args.yahoo.quotes[i].closes
                        IN  fn_ret.value["data"][Bare(instruments[i])].price
                                = closes[Len(closes)]
           /\ \A key \in DOMAIN fn_ret.value["data"] :
                \E i \in DOMAIN instruments : key = Bare(instruments[i])

\* C13 witness: the first symbol raises, the second has no history, the two
\* after them are fetched and are the whole mapping.
C13_Witness ==
    /\ CalledYahoo
    /\ ~fn_args.yahoo.fatal
    /\ fn_args.yahoo.quotes[1].kind = "raise"
    /\ fn_args.yahoo.quotes[2].kind = "hist"
    /\ fn_args.yahoo.quotes[2].closes = <<>>
    /\ ~FetchFails(fn_args.yahoo, 3)
    /\ ~FetchFails(fn_args.yahoo, 4)
    /\ DOMAIN fn_ret.value["data"] = {Bare(instruments[3]), Bare(instruments[4])}

\* what an item must show of the entry it was read from
TitleOf(entry) == IF "title" \in DOMAIN entry THEN entry["title"] ELSE <<>>

TextOf(entry) ==
    IF "summary" \in DOMAIN entry THEN entry["summary"]
    ELSE IF "description" \in DOMAIN entry THEN entry["description"]
    ELSE <<>>

Reads(item, entry) == item.title = TitleOf(entry) /\ item.summary = TextOf(entry)

\* the places of the result whose item is tagged with feed i
PlacesOf(out, i) == {p \in DOMAIN out : out[p].source = news_sources[i]}

Smaller(a, b) == IF a < b THEN a ELSE b

C15_StalledSourceCutOff == <>(cycle.pc = "done")

\* C16: for every feed the result of get_market_news holds at most 10 items
\* tagged with the feed's URL; they are exactly the first 10 entries of the
\* feed, or all of them when the feed has fewer; and every item of the result
\* is tagged with the URL of the feed whose entry it shows.
C16_FirstTenPerFeed ==
    CalledNews
        => LET out == fn_ret.value
           IN  /\ \A i \in DOMAIN news_sources :
                    LET feed == fn_args.feeds[i]
                        first == IF feed.kind = "parsed"
                                 THEN SubSeq(feed.entries, 1, Smaller(Len(feed.entries), 10))
                                 ELSE <<>>
                    IN  /\ Cardinality(PlacesOf(out, i)) =< 10
                        /\ Cardinality(PlacesOf(out, i)) = Len(first)
                        /\ \A k \in DOMAIN first :
                              \E p \in PlacesOf(out, i) : Reads(out[p], first[k])
                        /\ \A p \in PlacesOf(out, i) :
                              \E k \in DOMAIN first : Reads(out[p], first[k])
               /\ \A p \in DOMAIN out :
                    \E i \in DOMAIN news_sources : out[p].source = news_sources[i]

\* C16 witness: a feed with more than ten entries; ten of its items are in
\* the result and its eleventh entry is not.
C16_Witness ==
    /\ CalledNews
    /\ \E i \in DOMAIN news_sources :
          /\ fn_args.feeds[i].kind = "parsed"
          /\ Len(fn_args.feeds[i].entries) > 10
          /\ Cardinality(PlacesOf(fn_ret.value, i)) = 10
          /\ \A p \in PlacesOf(fn_ret.value, i) :
                ~Reads(fn_ret.value[p], fn_args.feeds[i].entries[11])

\* the place in the feed of the entry an item shows
EntryPlace(item, feed) == CHOOSE k \in DOMAIN feed.entries : Reads(item, feed.entries[k])

\* C17: in the list get_market_news returns, after the reliability sort, the
\* items of one source stand in the order their entries have in that source's
\* feed, for every combination of feed contents.
C17_FeedOrderKept ==
    CalledNews
        => LET out == fn_ret.value
           IN  \A i \in DOMAIN news_sources :
                 \A p, q \in PlacesOf(out, i) :
                    p < q => EntryPlace(out[p], fn_args.feeds[i])
                                < EntryPlace(out[q], fn_args.feeds[i])

\* C17 witness: the sort moved the items of the first feed behind those of a
\* trusted feed, and they still stand in feed order.
C17_Witness ==
    /\ CalledNews
    /\ fn_args.feeds[1].kind = "parsed"
    /\ Len(fn_args.feeds[1].entries) >= 2
    /\ fn_args.feeds[3].kind = "parsed"
    /\ Len(fn_args.feeds[3].entries) >= 2
    /\ LET out == fn_ret.value
           n == Len(out)
       IN  /\ out[1].source = news_sources[3]
           /\ out[n - 1].source = news_sources[1]
           /\ Reads(out[n - 1], fn_args.feeds[1].entries[Len(fn_args.feeds[1].entries) - 1])
           /\ Reads(out[n], fn_args.feeds[1].entries[Len(fn_args.feeds[1].entries)])

\* the number of items of the batch scored above 0.6
HighItems(news) == Cardinality({i \in DOMAIN news : Exceeds(ScoreOfItem(news[i]), 6)})

\* the decision table over (batch empty?, HIGH alerts > 0?, mean strength > 1.0?)
TableAction(empty, high, strong) ==
    CASE empty  -> "HOLD"
      [] high   -> "CAUTION"
      [] strong -> "ACTIVE"
      [] OTHER  -> "MONITOR"

\* C18: what create_trading_recommendations returns is fixed by its two
\* arguments alone, whatever the session and the token of the object hold and
\* whichever calls came before: the action is the decision table's over
\* (quote batch empty?, number of HIGH alerts > 0?, average strength > 1.0?),
\* and confidence and reason are those of the action, with the number of HIGH
\* alerts resp. the average strength of the arguments.
C18_RecommendationFromArgumentsOnly ==
    CalledRec
        => LET market_data == fn_args.market_data
               news_data == fn_args.news_data
               empty == ~HasBatch(market_data)
               high == HasHighItem(news_data)
               strong == ~empty /\ MeanAbove1(market_data["data"])
               ret == fn_ret.value
           IN  /\ ret.recommendation = TableAction(empty, high, strong)
               /\ CASE ret.recommendation = "HOLD" ->
                         /\ "confidence" \notin DOMAIN ret
                         /\ ret.reason.text = "Insufficient market data"
                    [] ret.recommendation = "CAUTION" ->
                         /\ EqualsTenths(ret.confidence, 3)
                         /\ ret.reason.n = HighItems(news_data)
                    [] ret.recommendation = "ACTIVE" ->
                         /\ EqualsTenths(ret.confidence, 8)
                         /\ ret.reason.avg.num * Cardinality(DOMAIN market_data["data"])
                                = SumAbsPct(market_data["data"]) * ret.reason.avg.den
                    [] OTHER ->
                         /\ EqualsTenths(ret.confidence, 6)
                         /\ ret.reason.text = "Low volatility environment"

\* C18 witness: the method was called on an object whose context had been
\* entered (session open, token set) and then left, for a strong batch
\* without HIGH alerts.
C18_Witness ==
    /\ CalledRec
    /\ session = "closed"
    /\ topstep_token # "None"
    /\ HasBatch(fn_args.market_data)
    /\ ~HasHighItem(fn_args.news_data)
    /\ fn_ret.value.recommendation = "ACTIVE"

\* the batch with both scores of every item computed anew from its text and
\* its source (lines 249-252)
Rescored(batch) ==
    [p \in DOMAIN batch |->
        [batch[p] EXCEPT
            !["manipulation_score"] =
                detect_manipulation(Concat3(batch[p].title, <<" ">>, batch[p].summary)),
            !["reliability_score"] = calculate_source_reliability(batch[p].source)]]

\* C19: scoring a batch of news items and sorting it by reliability is
\* repeatable: sorting the result of get_market_news once more leaves it
\* unchanged (the sort is idempotent), and so does scoring its items anew
\* and sorting them.
C19_SortIdempotent ==
    CalledNews
        => /\ SortedByReliability(fn_ret.value) = fn_ret.value
           /\ SortedByReliability(Rescored(fn_ret.value)) = fn_ret.value

\* C19 witness: a result the sort had to reorder, with tied items in it.
C19_Witness ==
    /\ CalledNews
    /\ Len(fn_ret.value) >= 3
    /\ fn_ret.value # Appended
    /\ SameScore(fn_ret.value[1]["reliability_score"], fn_ret.value[2]["reliability_score"])
    /\ ~SameScore(fn_ret.value[1]["reliability_score"],
                  fn_ret.value[Len(fn_ret.value)]["reliability_score"])

\* C20: across a sequence of analysis cycles on one object, a cycle leaves
\* every field of the object (session, token) as it was, the batches it hands
\* to the summarizer, the alert builder and the recommendation engine are in
\* its result as they were fetched, and its summary, alerts and
\* recommendation are those of this cycle's quote and news batches alone,
\* whatever earlier cycles returned.
C20_CyclesKeepNoMemory ==
    [][Completed(cycle') > Completed(cycle)
        => /\ session' = session
           /\ topstep_token' = topstep_token
           /\ "sources" \in DOMAIN analysis'
                => LET quotes == analysis'.sources.yahoo
                       news == analysis'.sources.news
                   IN  /\ quotes = get_market_data_yahoo(world.yahoo)
                       /\ news = get_market_news(world.feeds)
                       /\ analysis'.market_summary = create_market_summary(quotes)
                       /\ analysis'.manipulation_alerts = create_manipulation_alerts(news)
                       /\ analysis'.trading_recommendations
                            = create_trading_recommendations(quotes, news)]_vars

\* C20 witness: the second cycle of an object whose context is entered, after
\* a cycle that raised alerts, on a market without news.
C20_Witness ==
    /\ Completed(cycle) = 2
    /\ session = "open"
    /\ topstep_token # "None"
    /\ "sources" \in DOMAIN analysis
    /\ analysis.sources.news = <<>>
    /\ analysis.manipulation_alerts = <<>>
    /\ analysis.sources.topstep # None

\* no login attempt yields a token: it raises, is not answered 200/201, or
\* its answer carries none of the three token fields
LoginYieldsToken(r) ==
    /\ r.kind = "http"
    /\ r.status \in {200, 201}
    /\ \E k \in {"token", "access_token", "authToken"} :
          k \in DOMAIN r.json /\ r.json[k] # ""

AllLoginsFail(auth) == \A a \in DOMAIN auth : ~LoginYieldsToken(auth[a])

\* C21: the pipeline does not need the brokerage gateway: when every
\* authentication attempt fails, entering the context still opens the
\* session and leaves the object without a token, get_topstep_data returns
\* None without sending a request, and the analysis still carries the market
\* summary, the alerts and the recommendation of the quote and news batches.
C21_PipelineWithoutGateway ==
    [][AllLoginsFail(world.gateway.auth)
        => /\ (session # "open" /\ session' # session)
                => (session' = "open" /\ topstep_token' = "None")
           /\ fn_ret'.called
                => (fn_ret'.value = None /\ fn_ret'.requests = <<>>)
           /\ analysis' # NoAnalysis
                => /\ "sources" \in DOMAIN analysis'
                   /\ analysis'.sources.topstep = None
                   /\ LET quotes == get_market_data_yahoo(world.yahoo)
                          news == get_market_news(world.feeds)
                      IN  /\ analysis'.market_summary = create_market_summary(quotes)
                          /\ analysis'.manipulation_alerts = create_manipulation_alerts(news)
                          /\ analysis'.trading_recommendations
                                = create_trading_recommendations(quotes, news)]_vars

\* C21 witness: every login was refused although the data endpoints would
\* answer; the context is entered, get_topstep_data returned None and the
\* analysis has a summary with instruments and an alert.
C21_Witness ==
    /\ world.gateway = GatewayRefuses
    /\ session = "open"
    /\ topstep_token = "None"
    /\ fn_ret.called
    /\ fn_ret.value = None
    /\ "sources" \in DOMAIN analysis
    /\ "instruments" \in DOMAIN analysis.market_summary
    /\ analysis.manipulation_alerts # <<>>
    /\ "confidence" \in DOMAIN analysis.trading_recommendations

\* the texts that are JSON documents, by name
JsonTextNames ==
    {"approved", "rejected", "spaced", "empty_object", "null", "number", "string",
     "boolean", "array", "nested", "duplicate"}

IsJsonText(response) ==
    /\ response.t = "str"
    /\ \E k \in JsonTextNames : ResponseTexts[k] = response.chars

CalledAI(op) == fn_ret.called /\ fn_args.op = op

ParseHelpers ==
    {"_parse_market_analysis", "_parse_trading_signal",
     "_parse_performance_analysis", "_parse_risk_analysis"}

\* the key under which a helper's default carries the raw response
RawKey(op) ==
    IF op \in {"_parse_market_analysis", "_parse_trading_signal"}
    THEN Lit.analysis ELSE Lit.details

\* the entry that marks each helper's default
DefaultMark(op) ==
    CASE op = "_parse_market_analysis" -> Item(Lit.sentiment, PyStr(Lit.Neutral))
      [] op = "_parse_trading_signal" -> Item(Lit.signal, PyStr(Lit.NEUTRAL))
      [] op = "_parse_performance_analysis" ->
            Item(Lit.assessment, PyStr(Lit.analysis_completed))
      [] op = "_parse_risk_analysis" -> Item(Lit.approval, PyStr(Lit.MANUAL_REVIEW))

IsDict(value) == ~IsRaised(value) /\ value.t = "dict"

HasItem(value, item) == IsDict(value) /\ PyGet(value, item.k) = item.v

\* the chat completion call was made and failed
ApiFailed == fn_ret.api_calls = 1 /\ fn_args.api.kind = "raise"

\* str(e) of the failure as the methods see it
FailureText == PyStr(Lit.ai_api_error \o fn_args.api.error)

\* C22: whatever the response, a parse helper returns: the parsed JSON value
\* of a JSON text, otherwise its own default holding the raw response; and a
\* public method whose chat completion call fails returns its fallback
C22_ParsingNeverRaises ==
    /\ \A op \in ParseHelpers :
         CalledAI(op) =>
            /\ ~IsRaised(fn_ret.value)
            /\ IsJsonText(fn_args.response) =>
                 fn_ret.value = json_loads(fn_args.response)
            /\ ~IsJsonText(fn_args.response) =>
                 /\ HasItem(fn_ret.value, DefaultMark(op))
                 /\ HasItem(fn_ret.value, Item(RawKey(op), fn_args.response))
    /\ CalledAI("analyze_market_conditions") /\ ApiFailed =>
         /\ HasItem(fn_ret.value, Item(Lit.error, FailureText))
         /\ HasItem(PyGet(fn_ret.value, Lit.fallback_analysis),
                    Item(Lit.sentiment, PyStr(Lit.Neutral)))
    /\ CalledAI("generate_trading_signals") /\ ApiFailed =>
         /\ HasItem(fn_ret.value, Item(Lit.error, FailureText))
         /\ HasItem(fn_ret.value, Item(Lit.signal, PyStr(Lit.NEUTRAL)))
         /\ HasItem(fn_ret.value, Item(Lit.confidence, PyInt(0)))
    /\ CalledAI("analyze_trade_performance") /\ ApiFailed =>
         /\ HasItem(fn_ret.value, Item(Lit.error, FailureText))
         /\ HasItem(PyGet(fn_ret.value, Lit.basic_analysis),
                    Item(Lit.total_trades, PyInt(Len(fn_args.trades))))
    /\ CalledAI("risk_management_check") /\ ApiFailed =>
         /\ HasItem(fn_ret.value, Item(Lit.approval, PyStr(Lit.REJECTED)))
         /\ HasItem(fn_ret.value,
                    Item(Lit.reason, PyStr(Lit.risk_analysis_error \o FailureText.chars)))

\* a helper handed an object followed by prose answers with its default
C22_Witness ==
    /\ CalledAI("_parse_performance_analysis")
    /\ fn_args.response = PyStr(ResponseTexts.trailing)
    /\ HasItem(fn_ret.value, Item(Lit.details, fn_args.response))

\* the texts that are JSON documents approving the trade, by name
ApprovingTextNames == {"approved", "string"}

Approved == <<"A","P","P","R","O","V","E","D">>

\* the returned value says APPROVED
Approves(value) ==
    \/ HasItem(value, Item(Lit.approval, PyStr(Approved)))
    \/ value = PyStr(Approved)

\* C29: risk_management_check rejects when the chat completion call fails,
\* asks for manual review when the response is not JSON, and says APPROVED
\* only when the response is a JSON document saying so
C29_NoApprovalByDefault ==
    CalledAI("risk_management_check") =>
        /\ ApiFailed => HasItem(fn_ret.value, Item(Lit.approval, PyStr(Lit.REJECTED)))
        /\ fn_ret.api_calls = 0 =>
             HasItem(fn_ret.value, Item(Lit.approval, PyStr(Lit.REJECTED)))
        /\ /\ fn_ret.api_calls = 1
           /\ fn_args.api.kind = "content"
           /\ ~IsJsonText(fn_args.api.content)
           => HasItem(fn_ret.value, Item(Lit.approval, PyStr(Lit.MANUAL_REVIEW)))
        /\ Approves(fn_ret.value) =>
             /\ fn_ret.api_calls = 1
             /\ fn_args.api.kind = "content"
             /\ fn_args.api.content.t = "str"
             /\ \E k \in ApprovingTextNames :
                    ResponseTexts[k] = fn_args.api.content.chars

\* an approving object followed by prose is sent to manual review
C29_Witness ==
    /\ CalledAI("risk_management_check")
    /\ fn_args.api = ApiAnswers(PyStr(ResponseTexts.trailing))
    /\ HasItem(fn_ret.value, Item(Lit.approval, PyStr(Lit.MANUAL_REVIEW)))
    /\ HasItem(fn_ret.value, Item(Lit.details, fn_args.api.content))

\* C23: in the analysis of a non-empty quote batch the summary's
\* market_strength is 0, each instrument's strength is the absolute value of
\* its percent change, and the average strength the recommendation reports is
\* the mean of the absolute percent changes of the raw quotes
C23_MarketStrengthStaysZero ==
    (Analysed /\ "sources" \in DOMAIN analysis /\ HasBatch(analysis.sources.yahoo))
        => LET data == analysis.sources.yahoo["data"]
               summary == analysis.market_summary
               rec == analysis.trading_recommendations
           IN  /\ summary.market_strength = 0
               /\ DOMAIN summary.instruments = DOMAIN data
               /\ \A s \in DOMAIN data :
                    summary.instruments[s].strength = Abs(PctOf(data[s]))
               /\ rec.recommendation = "ACTIVE" =>
                    /\ rec.reason.avg.num * Cardinality(DOMAIN data)
                          = SumAbsPct(data) * rec.reason.avg.den
                    /\ rec.reason.avg.num > 0

\* an analysis whose recommendation reports a positive average strength
\* beside a summary whose market_strength is 0
C23_Witness ==
    /\ Analysed
    /\ "sources" \in DOMAIN analysis
    /\ HasBatch(analysis.sources.yahoo)
    /\ analysis.trading_recommendations.recommendation = "ACTIVE"
    /\ analysis.market_summary.market_strength = 0
    /\ \E s \in DOMAIN analysis.market_summary.instruments :
            analysis.market_summary.instruments[s].strength > 100

Bullish(data) == {s \in DOMAIN data : Classified(PctOf(data[s])) = "BULLISH"}

Bearish(data) == {s \in DOMAIN data : Classified(PctOf(data[s])) = "BEARISH"}

\* the batches one step away from data that have its size and its number of
\* BULLISH instruments: one quote replaced by a quote that is BULLISH exactly
\* if the replaced one is, or the quotes of two symbols exchanged (any two
\* batches over the same symbols with the same number of BULLISH instruments
\* are joined by a chain of such steps)
SameCountNeighbours(data) ==
    UNION {{[data EXCEPT ![s] = q] :
                q \in {q \in QuotesWith(SummaryPcts) :
                        (Classified(PctOf(q)) = "BULLISH")
                            <=> (Classified(PctOf(data[s])) = "BULLISH")}} :
            s \in DOMAIN data}
    \cup {[data EXCEPT ![s] = data[r], ![r] = data[s]] :
            s \in DOMAIN data, r \in DOMAIN data}

OverallOf(market_data) == create_market_summary(market_data).overall_sentiment

\* C24: the overall sentiment of a non-empty batch is BEARISH when no
\* instrument is BULLISH, however many are BEARISH, and it is the same for
\* every batch of the same size with the same number of BULLISH instruments
C24_OverallIgnoresBearishCount ==
    (CalledSummary /\ HasBatch(fn_args.market_data))
        => LET data == fn_args.market_data["data"]
           IN  /\ Bullish(data) = {} => fn_ret.value.overall_sentiment = "BEARISH"
               /\ \A d \in SameCountNeighbours(data) :
                    OverallOf([fn_args.market_data EXCEPT !["data"] = d])
                        = fn_ret.value.overall_sentiment

\* a batch of three instruments none of which moved is BEARISH overall
C24_Witness ==
    /\ CalledSummary
    /\ HasBatch(fn_args.market_data)
    /\ Cardinality(DOMAIN fn_args.market_data["data"]) = 3
    /\ Bullish(fn_args.market_data["data"]) = {}
    /\ Bearish(fn_args.market_data["data"]) = {}
    /\ fn_ret.value.overall_sentiment = "BEARISH"

Started == session_state # NotStarted

Smallest(a, b) == IF a < b THEN a ELSE b

\* C25: after any sequence of strategy operations the override flag is set
\* exactly when the current strategy is MANUAL_OVERRIDE, and the current
\* strategy is a key of the strategy table
C25_OverrideMatchesStrategy ==
    Started =>
        /\ session_state.strategy_override
              <=> session_state.current_strategy = "MANUAL_OVERRIDE"
        /\ \E i \in DOMAIN StrategyKeys :
              StrategyKeys[i] = session_state.current_strategy

\* the override was switched on and off again and a strategy was chosen
C25_Witness ==
    /\ Started
    /\ world.clock >= 3
    /\ session_state.current_strategy = "SWING_TRADING"
    /\ ~session_state.strategy_override
    /\ \E i \in DOMAIN session_state.alerts :
          session_state.alerts[i].message.text = "Manual override activated"
    /\ \E i \in DOMAIN session_state.alerts :
          session_state.alerts[i].message.text = " Returned to AI autonomous trading"

\* C26: after n calls of add_alert the list holds the last min(n, 20) alerts
\* added, in the order of the calls
C26_LastTwentyAlerts ==
    (Started /\ fn_args.op = "add_alert") =>
        LET n == world.clock
            kept == Smallest(n, 20)
            alerts == session_state.alerts
        IN  /\ Len(alerts) = kept
            /\ \A i \in 1..kept :
                /\ alerts[i].timestamp = n - kept + i - 1
                /\ alerts[i].message = fn_args.calls[n - kept + i].message
                /\ alerts[i].type = fn_args.calls[n - kept + i].type

\* twenty-three alerts were added: the list starts at the fourth
C26_Witness ==
    /\ Started
    /\ fn_args.op = "add_alert"
    /\ world.clock = 23
    /\ Len(session_state.alerts) = 20
    /\ session_state.alerts[1].timestamp = 3

\* the kinds of step of the trading interface, told by the position list
Opens == Started /\ Len(session_state'.positions) = Len(session_state.positions) + 1

Closes == Started /\ Len(session_state'.positions) = Len(session_state.positions) - 1

Reprices ==
    /\ Started
    /\ Len(session_state'.positions) = Len(session_state.positions)
    /\ session_state' # session_state

IdsDistinct(positions) ==
    \A i, j \in DOMAIN positions : positions[i].id = positions[j].id => i = j

\* "POS_1" .. "POS_9"
PosLabel(n) == <<"P","O","S","_", Digits[n + 1]>>

\* no position has been closed: every trade made is still an open position
NoneClosed(state) == Len(state.trade_history) = Len(state.positions)

C28_DailyEqualsTotal ==
    [][/\ Closes =>
            \E i \in DOMAIN session_state.positions :
                /\ \A j \in 1..(i - 1) :
                      session_state'.positions[j] = session_state.positions[j]
                /\ \A j \in i..(Len(session_state.positions) - 1) :
                      session_state'.positions[j] = session_state.positions[j + 1]
                /\ session_state'.daily_pnl
                      = session_state.daily_pnl + session_state.positions[i].unrealized_pnl
                /\ session_state'.total_pnl
                      = session_state.total_pnl + session_state.positions[i].unrealized_pnl
       /\ (Opens \/ Reprices) =>
            /\ session_state'.daily_pnl = session_state.daily_pnl
            /\ session_state'.total_pnl = session_state.total_pnl
       /\ Started => session_state'.daily_pnl = session_state'.total_pnl]_vars

\* three trades made, prices moved, two positions closed and one still open
\* with a P&L of its own: both totals hold the same non-zero sum
C28_Witness ==
    /\ Started
    /\ Len(session_state.trade_history) = 3
    /\ Len(session_state.positions) = 1
    /\ session_state.daily_pnl # 0
    /\ session_state.daily_pnl = session_state.total_pnl
    /\ fn_ret.called
    /\ fn_ret.value.unrealized_pnl # 0

\* the endpoint answers 200 with a JSON object whose success is truthy and
\* whose errorCode is 0
Accepts(response) ==
    /\ response.kind = "http"
    /\ response.status = 200
    /\ response.body.json = "object"
    /\ "success" \in DOMAIN response.body.data
    /\ response.body.data.success \in {PyBool(TRUE), PyStr(<<"o","k">>)}
    /\ "errorCode" \in DOMAIN response.body.data
    /\ response.body.data.errorCode \in {PyInt(0), PyBool(FALSE)}

\* the token field of the answer, None when it is null or missing
AnswerToken(response) ==
    IF "token" \in DOMAIN response.body.data THEN response.body.data.token
    ELSE [t |-> "null"]

\* a token is held: session_token is neither None nor empty
Holds(token) == token.t = "str" /\ Len(token.chars) > 0

\* a step that is the call of op
Calls(op) == world' = world /\ fn_ret'.called /\ fn_ret'.op = op

\* C30: authenticate returns True exactly when the endpoint accepts, and then
\* session_token is the answer's token field; otherwise it returns False and
\* session_token is as before.  get_account_info and get_positions
\* authenticate once when no token is held and not at all otherwise, and
\* return None when that authentication fails
C30_AuthenticateOnSuccessOnly ==
    [][/\ Calls("authenticate") =>
            /\ fn_ret'.value = Accepts(world.auth)
            /\ session_token' = IF Accepts(world.auth) THEN AnswerToken(world.auth)
                                ELSE session_token
       /\ \A op \in {"get_account_info", "get_positions"} :
            Calls(op) =>
                /\ fn_ret'.auth_calls = IF Holds(session_token) THEN 0 ELSE 1
                /\ Holds(session_token) =>
                      /\ session_token' = session_token
                      /\ fn_ret'.value # None
                /\ (~Holds(session_token) /\ ~Accepts(world.auth)) =>
                      /\ fn_ret'.value = None
                      /\ session_token' = session_token
                /\ (~Holds(session_token) /\ Accepts(world.auth)) =>
                      /\ fn_ret'.value # None
                      /\ session_token' = AnswerToken(world.auth)]_vars

\* an accepted login whose token is null: authenticate returned True and no
\* token is held
C30_Witness ==
    /\ fn_ret.called
    /\ fn_ret.op = "authenticate"
    /\ fn_ret.value = TRUE
    /\ Accepts(world.auth)
    /\ session_token = [t |-> "null"]
    /\ "token" \in DOMAIN world.auth.body.data

\* a cycle that met no stalled feed returns what the call as a whole returns
CycleAgrees ==
    cycle.pc = "done"
        => analysis = get_comprehensive_market_analysis(session, topstep_token, world)

====
